---- MODULE Spec2Model ----
(***************************************************************************)
(* Model of the OLAP demo's synthetic data generation core:                *)
(*   datagen/generator.py  - seeded dimension and fact generators          *)
(*   datagen/schemas.py    - validators                                    *)
(*   models/facts.py, storage/partition_manager.py - partition key model   *)
(*   storage/csv_handler.py - partitioned CSV datasets                     *)
(*                                                                         *)
(* Representation.  Money is kept in cents (Python rounds every monetary   *)
(* value to 2 decimals), real factors are exact fractions [num, den],      *)
(* dates are records [year, month, day], text is a sequence of one-char    *)
(* strings, a DataFrame is a sequence of row records.  A pseudo-random     *)
(* stream is a deterministic function of its state: seeding sets the state *)
(* from the seed, every draw reads the state and advances it.  The process *)
(* has three such streams: Python's `random` module, Faker's shared        *)
(* generator, and numpy's global generator used by DataFrame.sample.       *)
(***************************************************************************)
EXTENDS Integers, Sequences, FiniteSets, TLC

VARIABLES
    streams,      \* [py, faker, np]: states of the three process-wide streams
    today,        \* date.today() as a day ordinal
    dims,         \* the dimension tables at hand [time, geo, product, customer, payment]
    table,        \* the table object returned by the latest generator call [kind, df]
    lastCall,     \* the latest generator call [fn, args, out]
    memoCall,     \* an earlier generator call kept for comparison
    ncalls,       \* number of generator calls made
    ndraws,       \* number of draws made by other code
    checked,      \* outcome of the latest validator call [fn, out]
    part,         \* partition-key calls: the date and base path at hand, the
                  \* path built from them, and the latest call with its results
    contexts,     \* the DataGenerator objects alive: their seed and what each drew
    disk          \* the files under the storage base path, and the latest read

vars == <<streams, today, dims, table, lastCall, memoCall, ncalls, ndraws, checked, part, contexts, disk>>

----------------------------------------------------------------------------
(* Bounds of the model *)

\* resolution of a stream: states and raw outputs are 0..Modulus-1
Modulus == 1024
\* generator calls per behaviour
MaxCalls == 3
\* draws by unrelated code per behaviour
MaxOtherDraws == 1
\* days the calendar may advance
MaxDays == 1
\* generate_sales_fact calls per behaviour
MaxFactCalls == 2
\* transactions asked of one generate_sales_fact call
MaxTransactions == 2
\* length, in chunks, of a base path
MaxBaseLen == 2

\* generator.py:15
SEED == 42

NoCall == [fn |-> "none", args |-> <<>>, status |-> "none", df |-> <<>>]

NoTable == [kind |-> "none", df |-> <<>>]

NoCheck == [fn |-> "none", out |-> "none"]

NoDims == [time |-> <<>>, geo |-> <<>>, product |-> <<>>, customer |-> <<>>, payment |-> <<>>]

NoPart == [fn |-> "none"]

NoContexts == <<>>

NoDisk == [files |-> <<>>, read |-> [status |-> "none", df |-> <<>>]]

----------------------------------------------------------------------------
(* Arithmetic helpers *)

Abs(x) == IF x < 0 THEN -x ELSE x

Max(a, b) == IF a >= b THEN a ELSE b

Min(a, b) == IF a <= b THEN a ELSE b

RECURSIVE Gcd(_, _)
Gcd(a, b) == IF b = 0 THEN a ELSE Gcd(b, a % b)

Lcm(a, b) == (a \div Gcd(a, b)) * b

\* Python round(): nearest, ties to even, of the non-negative rational n/d
RoundHalfEven(n, d) ==
    LET q == n \div d
        r == n % d
    IN  IF 2 * r < d THEN q
        ELSE IF 2 * r > d THEN q + 1
        ELSE IF q % 2 = 0 THEN q ELSE q + 1

\* round(cents * f, 2) and round(cents / f, 2) for a fraction f
Round2Mul(cents, f) == RoundHalfEven(cents * f.num, f.den)

Round2Div(cents, f) == RoundHalfEven(cents * f.den, f.num)

RECURSIVE SumSeq(_)
SumSeq(s) == IF s = <<>> THEN 0 ELSE Head(s) + SumSeq(Tail(s))

Column(df, col) == {df[i][col] : i \in DOMAIN df}

----------------------------------------------------------------------------
(* Text: a string is a sequence of one-character strings *)

Digit(n) == <<"0", "1", "2", "3", "4", "5", "6", "7", "8", "9">>[n + 1]

\* str(n) for n >= 0
RECURSIVE Str(_)
Str(n) == IF n < 10 THEN <<Digit(n)>> ELSE Str(n \div 10) \o <<Digit(n % 10)>>

\* f"{n:0{width}d}"
RECURSIVE ZeroPad(_, _)
ZeroPad(s, width) == IF Len(s) >= width THEN s ELSE ZeroPad(<<"0">> \o s, width)

RECURSIVE Concat(_)
Concat(ss) == IF ss = <<>> THEN <<>> ELSE Head(ss) \o Concat(Tail(ss))

----------------------------------------------------------------------------
(* Dates *)

Date(y, m, d) == [year |-> y, month |-> m, day |-> d]

IsLeap(y) == (y % 4 = 0 /\ y % 100 # 0) \/ y % 400 = 0

DaysInMonth(y, m) ==
    IF m = 2 THEN (IF IsLeap(y) THEN 29 ELSE 28)
    ELSE IF m \in {4, 6, 9, 11} THEN 30 ELSE 31

NextDay(d) ==
    IF d.day < DaysInMonth(d.year, d.month) THEN Date(d.year, d.month, d.day + 1)
    ELSE IF d.month < 12 THEN Date(d.year, d.month + 1, 1)
    ELSE Date(d.year + 1, 1, 1)

\* total order on dates (the YYYYMMDD number is monotone in the date)
DateNum(d) == d.year * 10000 + d.month * 100 + d.day

DateLT(a, b) == DateNum(a) < DateNum(b)

----------------------------------------------------------------------------
(* Pseudo-random streams *)

\* random.seed(seed) / Faker.seed(seed): the state is a function of the seed
SeedState(seed) == (seed * 37 + 11) % Modulus

\* one draw advances the stream
Advance(s) == (261 * s + 113) % Modulus

\* random.random() < p/q
RandomBelow(s, p, q) == s * q < p * Modulus

\* random.randrange(n)
RandBelow(s, n) == (s * n) \div Modulus

\* random.randint(a, b), both ends included
RandInt(s, a, b) == a + RandBelow(s, b - a + 1)

\* random.choice(seq)
Choice(s, seq) == seq[RandBelow(s, Len(seq)) + 1]

\* random.uniform(a/scale, b/scale) as an exact fraction
Uniform(s, a, b, scale) == [num |-> a * Modulus + (b - a) * s, den |-> scale * Modulus]

RECURSIVE CumSum(_)
CumSum(w) ==
    IF w = <<>> THEN <<>>
    ELSE LET c == CumSum(SubSeq(w, 1, Len(w) - 1))
         IN  Append(c, (IF c = <<>> THEN 0 ELSE c[Len(c)]) + w[Len(w)])

\* integer weights proportional to a sequence of fractions
IntWeights(ws) ==
    LET RECURSIVE L(_)
        L(i) == IF i = 0 THEN 1 ELSE Lcm(L(i - 1), ws[i].den)
        D == L(Len(ws))
    IN  [i \in DOMAIN ws |-> ws[i].num * (D \div ws[i].den)]

\* 0-based index picked by random.choices(range(n), weights=w, k=1)[0]:
\* bisect of random() * total in the cumulative weights, capped at n - 1
WeightedIndex(s, w) ==
    LET c == CumSum(w)
        total == c[Len(c)]
        hits == {i \in DOMAIN c : c[i] * Modulus > s * total}
    IN  IF hits = {} THEN Len(c) - 1
        ELSE (CHOOSE i \in hits : \A j \in hits : i <= j) - 1

----------------------------------------------------------------------------
(* generator.py: DataGenerator *)

\* mutant: Faker's stream is left unseeded
DataGeneratorInit_NoFakerSeed(seed, st) ==
    [py |-> SeedState(seed), faker |-> st.faker, np |-> st.np]

\* DataGenerator.__init__: Faker.seed(seed); random.seed(seed).  numpy's
\* global generator is not touched.
DataGeneratorInit(seed, st) ==
    [py |-> SeedState(seed), faker |-> SeedState(seed), np |-> st.np]

\* DataGenerator.reset_seed: Faker.seed(self.seed); random.seed(self.seed)
ResetSeed(seed, st) ==
    [py |-> SeedState(seed), faker |-> SeedState(seed), np |-> st.np]

----------------------------------------------------------------------------
(* generator.py: weight model *)

\* mutant: the bottom share is spread over all n items
CreateParetoWeights_BottomOverAll(n, f) ==
    LET top_20_pct == Max(1, n \div 5)
    IN  [i \in 1..n |->
            IF i - 1 < top_20_pct
            THEN [num |-> f, den |-> 100 * top_20_pct]
            ELSE [num |-> 100 - f, den |-> 100 * n]]

\* _create_pareto_weights(n, factor) with factor = f/100; weights are fractions
CreateParetoWeights(n, f) ==
    LET top_20_pct == Max(1, n \div 5)
    IN  [i \in 1..n |->
            IF i - 1 < top_20_pct
            THEN [num |-> f, den |-> 100 * top_20_pct]
            ELSE [num |-> 100 - f, den |-> 100 * (n - top_20_pct)]]

\* _create_recency_weights(n)
CreateRecencyWeights(n) == [i \in 1..n |-> i]

----------------------------------------------------------------------------
(* generator.py: generate_dim_time *)

\* mutant: the end date is left out
RECURSIVE DateRange_EndExclusive(_, _)
DateRange_EndExclusive(start, end) ==
    IF ~DateLT(start, end) THEN <<>>
    ELSE <<start>> \o DateRange_EndExclusive(NextDay(start), end)

\* pd.date_range(start, end, freq='D'): every day from start to end, none if start > end
RECURSIVE DateRange(_, _)
DateRange(start, end) ==
    IF DateLT(end, start) THEN <<>>
    ELSE <<start>> \o DateRange(NextDay(start), end)

\* dt.dayofweek: 0 = Monday .. 6 = Sunday
DayOfWeek(d) ==
    LET t == <<0, 3, 2, 5, 0, 3, 5, 1, 4, 6, 2, 4>>
        y == IF d.month < 3 THEN d.year - 1 ELSE d.year
        sundayBased == (y + y \div 4 - y \div 100 + y \div 400 + t[d.month] + d.day) % 7
    IN  (sundayBased + 6) % 7

\* f"Q{((dt.month - 1) // 3) + 1}"
QuarterLabel(month) == <<"Q">> \o Str(((month - 1) \div 3) + 1)

UsHolidays == {<<1, 1>>, <<7, 4>>, <<12, 25>>, <<11, 24>>}

\* mutant: the month is scaled by 10, not by 100
TimeKey_MonthTimesTen(dt) == dt.year * 10000 + dt.month * 10 + dt.day

\* dt.year * 10000 + dt.month * 100 + dt.day
TimeKey(dt) == dt.year * 10000 + dt.month * 100 + dt.day

\* the record built for one day of the range
TimeRecord(dt) ==
    LET fiscal_year == IF dt.month >= 2 THEN dt.year ELSE dt.year - 1
        fiscal_month == ((dt.month - 2) % 12) + 1
    IN  [time_key |-> TimeKey(dt),
         date |-> dt,
         year |-> dt.year,
         quarter |-> QuarterLabel(dt.month),
         month |-> dt.month,
         day_of_month |-> dt.day,
         day_of_week |-> DayOfWeek(dt) + 1,
         is_weekend |-> DayOfWeek(dt) >= 5,
         is_holiday |-> <<dt.month, dt.day>> \in UsHolidays,
         fiscal_year |-> fiscal_year,
         fiscal_quarter |-> <<"F", "Y", "-", "Q">> \o Str(((fiscal_month - 1) \div 3) + 1),
         fiscal_period |-> <<"F", "Y">> \o Str(fiscal_year) \o <<"-", "P">>
                              \o ZeroPad(Str(fiscal_month), 2)]

\* generate_dim_time(start_date, end_date, seed): the table and the streams after the call
GenerateDimTime(start_date, end_date, seed, st) ==
    LET generator == DataGeneratorInit(seed, st)
        date_range == DateRange(start_date, end_date)
    IN  [status |-> "ok",
         df |-> [i \in DOMAIN date_range |-> TimeRecord(date_range[i])],
         st |-> generator]

----------------------------------------------------------------------------
(* generator.py: generate_dim_geography *)

CountriesData ==
    << [name |-> "United States", code |-> "US", timezone |-> "America/New_York",
        regions |-> <<"Northeast", "Southeast", "Midwest", "Southwest", "West">>],
       [name |-> "United Kingdom", code |-> "GB", timezone |-> "Europe/London",
        regions |-> <<"England", "Scotland", "Wales", "Northern Ireland", "Greater London">>],
       [name |-> "Canada", code |-> "CA", timezone |-> "America/Toronto",
        regions |-> <<"Ontario", "Quebec", "British Columbia", "Alberta", "Manitoba">>] >>

PopulationSegments == <<"Small (<100k)", "Medium (100k-500k)", "Large (500k-1M)", "Metro (>1M)">>

\* names Faker can return for a city (a sample of its list)
FakerCities == <<"Port Anna", "Lake Mark", "New Tina", "East John">>

\* one city: the streams, next key and records after appending its record.
\* Coordinates are kept in thousandths of a degree.
GeoCity(country, region, g) ==
    LET city == Choice(g.faker, FakerCities)
        f1 == Advance(g.faker)
        isUS == country.code = "US"
        isGB == country.code = "GB"
        lat == IF isUS THEN RandInt(f1, -90000, 90000)
               ELSE IF isGB THEN RoundHalfEven(1000 * Uniform(g.py, 50, 58, 1).num, Uniform(g.py, 50, 58, 1).den)
               ELSE RoundHalfEven(1000 * Uniform(g.py, 42, 60, 1).num, Uniform(g.py, 42, 60, 1).den)
        p1 == IF isUS THEN g.py ELSE Advance(g.py)
        lon == IF isUS THEN RandInt(Advance(f1), -180000, 180000)
               ELSE IF isGB THEN RandInt(p1, -5000, 2000)
               ELSE RandInt(p1, -141000, -52000)
        p2 == IF isUS THEN p1 ELSE Advance(p1)
        f2 == IF isUS THEN Advance(Advance(f1)) ELSE f1
        record == [geo_key |-> g.geo_key,
                   city |-> city,
                   region |-> region,
                   country |-> country.name,
                   country_code |-> country.code,
                   latitude |-> lat,
                   longitude |-> lon,
                   population_segment |-> Choice(p2, PopulationSegments),
                   timezone |-> country.timezone]
    IN  [py |-> Advance(p2), faker |-> f2, geo_key |-> g.geo_key + 1,
         records |-> Append(g.records, record)]

RECURSIVE GeoCities(_, _, _, _)
GeoCities(country, region, count, g) ==
    IF count <= 0 THEN g
    ELSE GeoCities(country, region, count - 1, GeoCity(country, region, g))

RECURSIVE GeoRegions(_, _, _, _, _)
GeoRegions(country, region_idx, num_regions, num_cities, g) ==
    IF region_idx >= Min(num_regions, Len(country.regions)) THEN g
    ELSE GeoRegions(country, region_idx + 1, num_regions, num_cities,
                    GeoCities(country, country.regions[region_idx + 1], num_cities, g))

RECURSIVE GeoCountries(_, _, _, _, _)
GeoCountries(country_idx, num_countries, num_regions, num_cities, g) ==
    IF country_idx >= Min(num_countries, Len(CountriesData)) THEN g
    ELSE GeoCountries(country_idx + 1, num_countries, num_regions, num_cities,
                      GeoRegions(CountriesData[country_idx + 1], 0, num_regions, num_cities, g))

\* generate_dim_geography(num_countries, num_regions_per_country, num_cities_per_region, seed)
GenerateDimGeography(num_countries, num_regions_per_country, num_cities_per_region, seed, st) ==
    LET generator == DataGeneratorInit(seed, st)
        g == GeoCountries(0, num_countries, num_regions_per_country, num_cities_per_region,
                          [py |-> generator.py, faker |-> generator.faker,
                           geo_key |-> 1, records |-> <<>>])
    IN  [status |-> "ok",
         df |-> g.records,
         st |-> [py |-> g.py, faker |-> g.faker, np |-> generator.np]]

----------------------------------------------------------------------------
(* generator.py: generate_dim_product *)

Categories == <<"Electronics", "Clothing", "Home & Garden", "Sports", "Books">>

Subcategories(category) ==
    CASE category = "Electronics" -> <<"Smartphones", "Laptops", "Tablets", "Accessories">>
      [] category = "Clothing" -> <<"Mens", "Womens", "Kids", "Accessories">>
      [] category = "Home & Garden" -> <<"Furniture", "Decor", "Kitchen", "Outdoor">>
      [] category = "Sports" -> <<"Equipment", "Apparel", "Footwear", "Accessories">>
      [] category = "Books" -> <<"Fiction", "Non-Fiction", "Educational", "Comics">>

Brands == <<"BrandA", "BrandB", "BrandC", "BrandD", "BrandE", "BrandF", "BrandG">>

\* names Faker can return for a colour (a sample of its list)
FakerColors == <<"Red", "Teal", "Olive", "Navy", "Plum">>

\* reference dates for SCD
HistoricalDate == Date(2022, 1, 1)

CurrentDate == Date(2024, 1, 1)

FarFuture == Date(9999, 12, 31)

\* f"PROD-{product_idx + 1:05d}"
ProductId(product_idx) == <<"P", "R", "O", "D", "-">> \o ZeroPad(Str(product_idx + 1), 5)

\* random.random() < change_rate, change_rate in hundredths
HasChange(s, change_rate) == RandomBelow(s, change_rate, 100)

\* mutant: the historical row takes the key of the current row that follows it
HistoricalRecord_KeyOfCurrent(product_key, product_id, product_name, category, subcategory, brand, old_cost, old_price) ==
    [product_key |-> product_key + 1,
     product_id |-> product_id,
     product_name |-> product_name,
     category |-> category,
     subcategory |-> subcategory,
     brand |-> brand,
     unit_cost |-> old_cost,
     unit_price |-> old_price,
     effective_date |-> HistoricalDate,
     expiration_date |-> CurrentDate,
     is_current |-> FALSE]

\* the historical (expired) version of a product
HistoricalRecord(product_key, product_id, product_name, category, subcategory, brand, old_cost, old_price) ==
    [product_key |-> product_key,
     product_id |-> product_id,
     product_name |-> product_name,
     category |-> category,
     subcategory |-> subcategory,
     brand |-> brand,
     unit_cost |-> old_cost,
     unit_price |-> old_price,
     effective_date |-> HistoricalDate,
     expiration_date |-> CurrentDate,
     is_current |-> FALSE]

\* mutant: the current version always starts at the historical anchor
CurrentRecord_AlwaysHistoricalStart(product_key, product_id, product_name, category, subcategory, brand, unit_cost, unit_price, has_change) ==
    [product_key |-> product_key,
     product_id |-> product_id,
     product_name |-> product_name,
     category |-> category,
     subcategory |-> subcategory,
     brand |-> brand,
     unit_cost |-> unit_cost,
     unit_price |-> unit_price,
     effective_date |-> HistoricalDate,
     expiration_date |-> FarFuture,
     is_current |-> TRUE]

\* the current version of a product
CurrentRecord(product_key, product_id, product_name, category, subcategory, brand, unit_cost, unit_price, has_change) ==
    [product_key |-> product_key,
     product_id |-> product_id,
     product_name |-> product_name,
     category |-> category,
     subcategory |-> subcategory,
     brand |-> brand,
     unit_cost |-> unit_cost,
     unit_price |-> unit_price,
     effective_date |-> IF has_change THEN CurrentDate ELSE HistoricalDate,
     expiration_date |-> FarFuture,
     is_current |-> TRUE]

\* one pass of the product loop: streams, next key and records afterwards
ProductIteration(product_idx, change_rate, g) ==
    LET product_id == ProductId(product_idx)
        category == Choice(g.py, Categories)
        p1 == Advance(g.py)
        subcategory == Choice(p1, Subcategories(category))
        p2 == Advance(p1)
        brand == Choice(p2, Brands)
        p3 == Advance(p2)
        product_name == <<brand, subcategory, Choice(g.faker, FakerColors)>>
        unit_cost == Round2Mul(100, Uniform(p3, 50, 2000, 10))
        p4 == Advance(p3)
        unit_price == Round2Mul(unit_cost, Uniform(p4, 13, 25, 10))
        p5 == Advance(p4)
        has_change == HasChange(p5, change_rate)
        p6 == Advance(p5)
        old_price == Round2Mul(unit_price, Uniform(p6, 8, 12, 10))
        p7 == Advance(p6)
        old_cost == Round2Div(old_price, Uniform(p7, 13, 25, 10))
        p8 == Advance(p7)
        withHistory ==
            IF has_change
            THEN Append(g.records,
                        HistoricalRecord(g.product_key, product_id, product_name, category,
                                         subcategory, brand, old_cost, old_price))
            ELSE g.records
        key == IF has_change THEN g.product_key + 1 ELSE g.product_key
    IN  [py |-> IF has_change THEN p8 ELSE p6,
         faker |-> Advance(g.faker),
         product_key |-> key + 1,
         records |-> Append(withHistory,
                            CurrentRecord(key, product_id, product_name, category,
                                          subcategory, brand, unit_cost, unit_price,
                                          has_change))]

RECURSIVE ProductLoop(_, _, _, _)
ProductLoop(product_idx, num_products, change_rate, g) ==
    IF product_idx >= num_products THEN g
    ELSE ProductLoop(product_idx + 1, num_products, change_rate,
                     ProductIteration(product_idx, change_rate, g))

\* generate_dim_product(num_products, change_rate, seed), change_rate in hundredths
GenerateDimProduct(num_products, change_rate, seed, st) ==
    LET generator == DataGeneratorInit(seed, st)
        g == ProductLoop(0, num_products, change_rate,
                         [py |-> generator.py, faker |-> generator.faker,
                          product_key |-> 1, records |-> <<>>])
    IN  [status |-> "ok",
         df |-> g.records,
         st |-> [py |-> g.py, faker |-> g.faker, np |-> generator.np]]

----------------------------------------------------------------------------
(* generator.py: generate_dim_customer *)

IncomeSegments == <<"Low (<30k)", "Medium (30k-75k)", "High (75k-150k)", "Premium (>150k)">>

Genders == <<"M", "F", "Other">>

\* names Faker can return (a sample of its lists)
FakerNames == <<"Ann", "Bob", "Cy">>

\* the loyalty segments an income segment can draw from
SegmentChoices(income_segment) ==
    IF income_segment = "Premium (>150k)" THEN <<"Gold", "Platinum">>
    ELSE IF income_segment = "High (75k-150k)" THEN <<"Silver", "Gold">>
    ELSE <<"Bronze", "Silver">>

\* date.today() - timedelta(days=days_ago), dates as day ordinals
RegistrationDate(now, days_ago) == now - days_ago

\* date.today() - timedelta(days=age_years * 365)
DateOfBirth(now, age_years) == now - age_years * 365

\* one pass of the customer loop
CustomerIteration(customer_idx, now, g) ==
    LET days_ago == RandInt(g.py, 0, 365 * 5)
        p1 == Advance(g.py)
        age_years == RandInt(p1, 18, 80)
        p2 == Advance(p1)
        income_segment == Choice(p2, IncomeSegments)
        p3 == Advance(p2)
        customer_segment == Choice(p3, SegmentChoices(income_segment))
        p4 == Advance(p3)
        \* random.random() > days_ago / (365 * 5 * 2)
        is_active == p4 * (365 * 5 * 2) > days_ago * Modulus
        p5 == Advance(p4)
        f1 == Advance(g.faker)
        f2 == Advance(f1)
        f3 == Advance(f2)
        record == [customer_key |-> customer_idx + 1,
                   customer_id |-> <<"C", "U", "S", "T", "-">> \o ZeroPad(Str(customer_idx + 1), 6),
                   first_name |-> Choice(g.faker, FakerNames),
                   last_name |-> Choice(f1, FakerNames),
                   email |-> RandBelow(f2, 100),
                   phone |-> RandBelow(f3, 100),
                   date_of_birth |-> DateOfBirth(now, age_years),
                   gender |-> Choice(p5, Genders),
                   income_segment |-> income_segment,
                   customer_segment |-> customer_segment,
                   registration_date |-> RegistrationDate(now, days_ago),
                   is_active |-> is_active]
    IN  [py |-> Advance(p5), faker |-> Advance(f3), records |-> Append(g.records, record)]

RECURSIVE CustomerLoop(_, _, _, _)
CustomerLoop(customer_idx, num_customers, now, g) ==
    IF customer_idx >= num_customers THEN g
    ELSE CustomerLoop(customer_idx + 1, num_customers, now,
                      CustomerIteration(customer_idx, now, g))

\* generate_dim_customer(num_customers, seed), run on the day `now`
GenerateDimCustomer(num_customers, seed, st, now) ==
    LET generator == DataGeneratorInit(seed, st)
        g == CustomerLoop(0, num_customers, now,
                          [py |-> generator.py, faker |-> generator.faker, records |-> <<>>])
    IN  [status |-> "ok",
         df |-> g.records,
         st |-> [py |-> g.py, faker |-> g.faker, np |-> generator.np]]

----------------------------------------------------------------------------
(* generator.py: generate_dim_payment *)

\* processing_fee_pct in tenths of a percent
PaymentMethods ==
    << [payment_method |-> "Credit Card", payment_type |-> "Card",
        processing_fee_pct |-> 29, is_digital |-> TRUE],
       [payment_method |-> "Debit Card", payment_type |-> "Card",
        processing_fee_pct |-> 15, is_digital |-> TRUE],
       [payment_method |-> "PayPal", payment_type |-> "Digital Wallet",
        processing_fee_pct |-> 35, is_digital |-> TRUE],
       [payment_method |-> "Apple Pay", payment_type |-> "Digital Wallet",
        processing_fee_pct |-> 25, is_digital |-> TRUE],
       [payment_method |-> "Bank Transfer", payment_type |-> "Electronic",
        processing_fee_pct |-> 5, is_digital |-> TRUE],
       [payment_method |-> "Cash", payment_type |-> "Physical",
        processing_fee_pct |-> 0, is_digital |-> FALSE],
       [payment_method |-> "Check", payment_type |-> "Physical",
        processing_fee_pct |-> 0, is_digital |-> FALSE] >>

\* generate_dim_payment(seed)
GenerateDimPayment(seed, st) ==
    LET generator == DataGeneratorInit(seed, st)
    IN  [status |-> "ok",
         df |-> [idx \in DOMAIN PaymentMethods |->
                    [payment_key |-> idx,
                     payment_method |-> PaymentMethods[idx].payment_method,
                     payment_type |-> PaymentMethods[idx].payment_type,
                     processing_fee_pct |-> PaymentMethods[idx].processing_fee_pct,
                     is_digital |-> PaymentMethods[idx].is_digital]],
         st |-> generator]

----------------------------------------------------------------------------
(* generator.py: generate_sales_fact *)

\* mutant: no filter, every version is on sale
CurrentProducts_All(product_df) == product_df

\* product_df[product_df['is_current'] == True]
CurrentProducts(product_df) == SelectSeq(product_df, LAMBDA r : r.is_current)

\* random.choices raises on an empty population and on a total weight <= 0
ChoicesRaises(ws) == ws = <<>> \/ SumSeq(IntWeights(ws)) <= 0

\* DataFrame.sample(n=1) raises on an empty frame
SampleRaises(df) == df = <<>>

\* time_df.sample(n=1, weights=_create_recency_weights(len(time_df))).iloc[0],
\* drawn from numpy's global stream
SampleTime(np, time_df) == time_df[WeightedIndex(np, CreateRecencyWeights(Len(time_df))) + 1]

\* df.sample(n=1).iloc[0], drawn from numpy's global stream
SampleRow(np, df) == df[RandBelow(np, Len(df)) + 1]

\* mutant: the 0-based position is used as the key
CustomerKeyAt_Position(customer_df, customer_idx) == customer_idx

\* customer_df.iloc[customer_idx]['customer_key']
CustomerKeyAt(customer_df, customer_idx) == customer_df[customer_idx + 1].customer_key

\* current_products.iloc[product_idx]
ProductRecordAt(current_products, product_idx) == current_products[product_idx + 1]

\* mutant: the count is drawn from 0..4
NumLineItems_ZeroBased(s) == WeightedIndex(s, <<40, 30, 15, 10, 5>>)

\* random.choices([1, 2, 3, 4, 5], weights=[40, 30, 15, 10, 5], k=1)[0]
NumLineItems(s) == <<1, 2, 3, 4, 5>>[WeightedIndex(s, <<40, 30, 15, 10, 5>>) + 1]

\* random.choices([1, 2, 3, 4, 5], weights=[50, 30, 12, 5, 3], k=1)[0]
Quantity(s) == <<1, 2, 3, 4, 5>>[WeightedIndex(s, <<50, 30, 12, 5, 3>>) + 1]

\* round(base_unit_price * random.uniform(0.95, 1.05), 2)
JitteredPrice(base_unit_price, s) == Round2Mul(base_unit_price, Uniform(s, 19, 21, 20))

\* round(quantity * unit_price, 2)
BaseRevenue(quantity, unit_price) == quantity * unit_price

\* mutant: the cost of one unit, whatever the quantity
TotalCost_OneUnit(quantity, cost_per_unit) == cost_per_unit

\* round(quantity * cost_per_unit, 2)
TotalCost(quantity, cost_per_unit) == quantity * cost_per_unit

\* random.random() < 0.2
DiscountApplies(s) == RandomBelow(s, 2, 10)

\* mutant: the percentage is drawn from 5%..125%
DiscountAmount_UpTo125Pct(revenue, s) == Round2Mul(revenue, Uniform(s, 1, 25, 20))

\* round(revenue * random.uniform(0.05, 0.25), 2)
DiscountAmount(revenue, s) == Round2Mul(revenue, Uniform(s, 1, 5, 20))

\* mutant: the discount is not taken off the revenue
FinalRevenue_IgnoresDiscount(revenue, discount_amount) == revenue

\* round(revenue - discount_amount, 2)
FinalRevenue(revenue, discount_amount) == revenue - discount_amount

\* round(final_revenue - total_cost, 2)
Profit(final_revenue, total_cost) == final_revenue - total_cost

\* mutant: late sales are stamped on the following day
Timestamp_LateOnNextDay(transaction_date, hour, minute, second) ==
    [date |-> IF hour >= 20 THEN NextDay(transaction_date) ELSE transaction_date,
     hour |-> hour, minute |-> minute, second |-> second]

\* datetime.combine(date, min.time()).replace(hour, minute, second)
Timestamp(transaction_date, hour, minute, second) ==
    [date |-> transaction_date, hour |-> hour, minute |-> minute, second |-> second]

\* mutant: the geography key moves on with every line item
LineItemRecord_GeoPerLine(t, line_item_id, product_record, jitter_draw, quantity_draw, discount_draw, pct_draw) ==
    LET unit_price == JitteredPrice(product_record.unit_price, jitter_draw)
        quantity == Quantity(quantity_draw)
        revenue == BaseRevenue(quantity, unit_price)
        total_cost == TotalCost(quantity, product_record.unit_cost)
        discount_amount == IF DiscountApplies(discount_draw)
                           THEN DiscountAmount(revenue, pct_draw) ELSE 0
        final_revenue == FinalRevenue(revenue, discount_amount)
    IN  [transaction_id |-> t.transaction_id,
         line_item_id |-> line_item_id,
         transaction_date |-> t.transaction_date,
         transaction_timestamp |-> t.transaction_timestamp,
         time_key |-> t.time_key,
         geo_key |-> t.geo_key + line_item_id - 1,
         product_key |-> product_record.product_key,
         customer_key |-> t.customer_key,
         payment_key |-> t.payment_key,
         quantity |-> quantity,
         unit_price |-> unit_price,
         revenue |-> final_revenue,
         cost |-> total_cost,
         discount_amount |-> discount_amount,
         profit |-> Profit(final_revenue, total_cost)]

\* the row one pass of the line-item loop appends: t holds the transaction's
\* shared fields, jitter_draw, quantity_draw, discount_draw and pct_draw are the
\* values the stream yields to the four random calls of the pass
LineItemRecord(t, line_item_id, product_record, jitter_draw, quantity_draw, discount_draw, pct_draw) ==
    LET unit_price == JitteredPrice(product_record.unit_price, jitter_draw)
        quantity == Quantity(quantity_draw)
        revenue == BaseRevenue(quantity, unit_price)
        total_cost == TotalCost(quantity, product_record.unit_cost)
        discount_amount == IF DiscountApplies(discount_draw)
                           THEN DiscountAmount(revenue, pct_draw) ELSE 0
        final_revenue == FinalRevenue(revenue, discount_amount)
    IN  [transaction_id |-> t.transaction_id,
         line_item_id |-> line_item_id,
         transaction_date |-> t.transaction_date,
         transaction_timestamp |-> t.transaction_timestamp,
         time_key |-> t.time_key,
         geo_key |-> t.geo_key,
         product_key |-> product_record.product_key,
         customer_key |-> t.customer_key,
         payment_key |-> t.payment_key,
         quantity |-> quantity,
         unit_price |-> unit_price,
         revenue |-> final_revenue,
         cost |-> total_cost,
         discount_amount |-> discount_amount,
         profit |-> Profit(final_revenue, total_cost)]

\* one pass of the line-item loop
LineItem(t, line_item_id, ctx, g) ==
    IF ChoicesRaises(ctx.pareto_products) THEN [g EXCEPT !.status = "error"]
    ELSE
    LET product_idx == WeightedIndex(g.py, IntWeights(ctx.pareto_products))
        product_record == ProductRecordAt(ctx.current_products, product_idx)
        p1 == Advance(g.py)
        p2 == Advance(p1)
        p3 == Advance(p2)
        p4 == Advance(p3)
        p5 == IF DiscountApplies(p3) THEN Advance(p4) ELSE p4
    IN  [g EXCEPT !.py = p5,
                  !.records = Append(g.records,
                                     LineItemRecord(t, line_item_id, product_record,
                                                    p1, p2, p3, p4))]

RECURSIVE LineItemLoop(_, _, _, _, _)
LineItemLoop(t, line_item_id, num_line_items, ctx, g) ==
    IF line_item_id > num_line_items \/ g.status # "ok" THEN g
    ELSE LineItemLoop(t, line_item_id + 1, num_line_items, ctx,
                      LineItem(t, line_item_id, ctx, g))

\* one pass of the transaction loop
Transaction(transaction_id, ctx, g) ==
    IF SampleRaises(ctx.time_df) THEN [g EXCEPT !.status = "error"]
    ELSE
    LET time_record == SampleTime(g.np, ctx.time_df)
        n1 == Advance(g.np)
        hour == RandInt(g.py, 8, 21)
        p1 == Advance(g.py)
        minute == RandInt(p1, 0, 59)
        p2 == Advance(p1)
        second == RandInt(p2, 0, 59)
        p3 == Advance(p2)
    IN  IF SampleRaises(ctx.geo_df) THEN [g EXCEPT !.status = "error", !.py = p3, !.np = n1]
        ELSE
        LET geo_key == SampleRow(n1, ctx.geo_df).geo_key
            n2 == Advance(n1)
        IN  IF ChoicesRaises(ctx.pareto_customers)
            THEN [g EXCEPT !.status = "error", !.py = p3, !.np = n2]
            ELSE
            LET customer_idx == WeightedIndex(p3, IntWeights(ctx.pareto_customers))
                p4 == Advance(p3)
            IN  IF SampleRaises(ctx.payment_df)
                THEN [g EXCEPT !.status = "error", !.py = p4, !.np = n2]
                ELSE
                LET payment_key == SampleRow(n2, ctx.payment_df).payment_key
                    n3 == Advance(n2)
                    num_line_items == NumLineItems(p4)
                    p5 == Advance(p4)
                    t == [transaction_id |-> transaction_id,
                          transaction_date |-> time_record.date,
                          transaction_timestamp |->
                              Timestamp(time_record.date, hour, minute, second),
                          time_key |-> time_record.time_key,
                          geo_key |-> geo_key,
                          customer_key |-> CustomerKeyAt(ctx.customer_df, customer_idx),
                          payment_key |-> payment_key]
                IN  LineItemLoop(t, 1, num_line_items, ctx,
                                 [g EXCEPT !.py = p5, !.np = n3])

RECURSIVE TransactionLoop(_, _, _, _)
TransactionLoop(transaction_id, num_transactions, ctx, g) ==
    IF transaction_id > num_transactions \/ g.status # "ok" THEN g
    ELSE TransactionLoop(transaction_id + 1, num_transactions, ctx,
                         Transaction(transaction_id, ctx, g))

\* mutant: a failure inside the loop is swallowed and the rows appended so far
\* are returned
GenerateSalesFact_ReturnsPartial(num_transactions, d, pareto_factor, seed, st) ==
    LET generator == DataGeneratorInit(seed, st)
        current_products == CurrentProducts(d.product)
        ctx == [time_df |-> d.time,
                geo_df |-> d.geo,
                current_products |-> current_products,
                customer_df |-> d.customer,
                payment_df |-> d.payment,
                pareto_products |-> CreateParetoWeights(Len(current_products), pareto_factor),
                pareto_customers |-> CreateParetoWeights(Len(d.customer), pareto_factor)]
        g == TransactionLoop(1, num_transactions, ctx,
                             [py |-> generator.py, np |-> generator.np,
                              records |-> <<>>, status |-> "ok"])
    IN  [status |-> "ok",
         df |-> g.records,
         emitted |-> Len(g.records),
         st |-> [py |-> g.py, faker |-> generator.faker, np |-> g.np]]

\* generate_sales_fact(num_transactions, time_df, geo_df, product_df, customer_df,
\* payment_df, pareto_factor, seed), pareto_factor in hundredths.  status is
\* "error" when the call raises; no table is returned then.  emitted counts the
\* records appended before the call returned or raised.
GenerateSalesFact(num_transactions, d, pareto_factor, seed, st) ==
    LET generator == DataGeneratorInit(seed, st)
        current_products == CurrentProducts(d.product)
        ctx == [time_df |-> d.time,
                geo_df |-> d.geo,
                current_products |-> current_products,
                customer_df |-> d.customer,
                payment_df |-> d.payment,
                pareto_products |-> CreateParetoWeights(Len(current_products), pareto_factor),
                pareto_customers |-> CreateParetoWeights(Len(d.customer), pareto_factor)]
        g == TransactionLoop(1, num_transactions, ctx,
                             [py |-> generator.py, np |-> generator.np,
                              records |-> <<>>, status |-> "ok"])
    IN  [status |-> g.status,
         df |-> IF g.status = "ok" THEN g.records ELSE <<>>,
         emitted |-> Len(g.records),
         st |-> [py |-> g.py, faker |-> generator.faker, np |-> g.np]]

----------------------------------------------------------------------------
(* schemas.py: validators.  A validator returns "True" or raises "ValueError". *)

\* df[col] = values: the frame with the column added in place
WithColumn(df, col, values) == [i \in DOMAIN df |-> (col :> values[i]) @@ df[i]]

\* mutant: the rows are compared in table order
SortByEffective_TableOrder(rows) == rows

\* rows ordered by effective_date (sort_values; equal keys keep their order)
RECURSIVE SortByEffective(_)
SortByEffective(rows) ==
    IF rows = <<>> THEN <<>>
    ELSE LET rest == SortByEffective(SubSeq(rows, 1, Len(rows) - 1))
             x == rows[Len(rows)]
             before == SelectSeq(rest, LAMBDA r : ~DateLT(x.effective_date, r.effective_date))
             after == SelectSeq(rest, LAMBDA r : DateLT(x.effective_date, r.effective_date))
         IN  before \o <<x>> \o after

\* validate_scd_type2(df)
ValidateScdType2(df) ==
    LET invalid_dates == SelectSeq(df, LAMBDA r : ~DateLT(r.effective_date, r.expiration_date))
        current_records(pid) == SelectSeq(df, LAMBDA r : r.is_current /\ r.product_id = pid)
        multiple_current == {pid \in Column(df, "product_id") : Len(current_records(pid)) > 1}
        product_records(pid) == SortByEffective(SelectSeq(df, LAMBDA r : r.product_id = pid))
        overlapping == {pid \in Column(df, "product_id") :
                           \E i \in 1..(Len(product_records(pid)) - 1) :
                               DateLT(product_records(pid)[i + 1].effective_date,
                                      product_records(pid)[i].expiration_date)}
    IN  IF invalid_dates # <<>> THEN "ValueError"
        ELSE IF multiple_current # {} THEN "ValueError"
        ELSE IF overlapping # {} THEN "ValueError"
        ELSE "True"

\* validate_time_dimension(df): the outcome and the frame as the call leaves it
ValidateTimeDimension(df) ==
    LET invalid_keys == SelectSeq(df, LAMBDA r : r.time_key < 19000101 \/ r.time_key > 21001231)
        df1 == WithColumn(df, "expected_key",
                          [i \in DOMAIN df |->
                              df[i].date.year * 10000 + df[i].date.month * 100 + df[i].date.day])
        mismatches == SelectSeq(df1, LAMBDA r : r.time_key # r.expected_key)
    IN  IF invalid_keys # <<>> THEN [out |-> "ValueError", df |-> df]
        ELSE IF mismatches # <<>> THEN [out |-> "ValueError", df |-> df1]
        ELSE [out |-> "True", df |-> df1]

\* validate_fact_measures(df): the outcome and the frame as the call leaves it.
\* Amounts are cents, so the tolerance 0.01 is 1.
ValidateFactMeasures(df) ==
    LET df1 == WithColumn(df, "expected_revenue",
                          [i \in DOMAIN df |-> df[i].quantity * df[i].unit_price])
        revenue_errors == SelectSeq(df1, LAMBDA r : Abs(r.revenue - r.expected_revenue) > 1)
        df2 == WithColumn(df1, "expected_profit",
                          [i \in DOMAIN df1 |-> df1[i].revenue - df1[i].cost])
        profit_errors == SelectSeq(df2, LAMBDA r : Abs(r.profit - r.expected_profit) > 1)
        negative == \E i \in DOMAIN df2 :
                        \/ df2[i].quantity < 0
                        \/ df2[i].unit_price < 0
                        \/ df2[i].revenue < 0
                        \/ df2[i].cost < 0
                        \/ df2[i].discount_amount < 0
    IN  IF revenue_errors # <<>> THEN [out |-> "ValueError", df |-> df1]
        ELSE IF profit_errors # <<>> THEN [out |-> "ValueError", df |-> df2]
        ELSE IF negative THEN [out |-> "ValueError", df |-> df2]
        ELSE [out |-> "True", df |-> df2]

----------------------------------------------------------------------------
(* models/facts.py and storage/partition_manager.py: partition key model *)

\* facts.extract_partition_keys(transaction_date): both values are strings
ExtractPartitionKeys(transaction_date) ==
    LET year == transaction_date.year
        quarter_num == (transaction_date.month - 1) \div 3 + 1
    IN  [year |-> Str(year), quarter |-> <<"Q">> \o Str(quarter_num)]

\* facts.partition_path(transaction_date, base_path)
PartitionPath(transaction_date, base_path) ==
    LET keys == ExtractPartitionKeys(transaction_date)
    IN  base_path \o <<"/", "y", "e", "a", "r", "=">> \o keys.year
                  \o <<"/", "q", "u", "a", "r", "t", "e", "r", "=">> \o keys.quarter

\* PartitionManager.extract_year_quarter(transaction_date): (int, str)
ExtractYearQuarter(transaction_date) ==
    <<transaction_date.year, <<"Q">> \o Str(((transaction_date.month - 1) \div 3) + 1)>>

\* pd.to_datetime(date): midnight of that day
ToDatetime(d) == [date |-> d, hour |-> 0, minute |-> 0, second |-> 0]

\* mutant: the quarter is taken from month // 3
DtQuarter_OffByOne(ts) == (ts.date.month \div 3) + 1

\* Series.dt.quarter
DtQuarter(ts) == ((ts.date.month - 1) \div 3) + 1

\* PartitionManager.add_partition_columns(df, date_column): a new frame; df is left alone
AddPartitionColumns(df, date_column) ==
    [i \in DOMAIN df |->
        LET converted == [df[i] EXCEPT ![date_column] = ToDatetime(@)]
        IN  ("year" :> converted[date_column].date.year)
            @@ ("quarter" :> (<<"Q">> \o Str(DtQuarter(converted[date_column]))))
            @@ converted]

\* str.split(sep): the pieces between occurrences of the character sep
RECURSIVE Split(_, _)
Split(s, sep) ==
    IF \A i \in DOMAIN s : s[i] # sep THEN <<s>>
    ELSE LET k == CHOOSE i \in DOMAIN s : s[i] = sep /\ \A j \in 1..(i - 1) : s[j] # sep
         IN  <<SubSeq(s, 1, k - 1)>> \o Split(SubSeq(s, k + 1, Len(s)), sep)

\* part.split('=', 1): the text before and after the first '='
SplitFirst(s, sep) ==
    LET k == CHOOSE i \in DOMAIN s : s[i] = sep /\ \A j \in 1..(i - 1) : s[j] # sep
    IN  <<SubSeq(s, 1, k - 1), SubSeq(s, k + 1, Len(s))>>

\* mutant: an existing key keeps its first value
DictSet_KeepFirst(dict, key, value) ==
    [k \in DOMAIN dict \cup {key} |-> IF k \in DOMAIN dict THEN dict[k] ELSE value]

\* partitions[key] = value
DictSet(dict, key, value) ==
    [k \in DOMAIN dict \cup {key} |-> IF k = key THEN value ELSE dict[k]]

EmptyDict == [k \in {} |-> <<>>]

\* the loop body of parse_partition_path for one path segment
ParsePart(partitions, piece) ==
    IF \E i \in DOMAIN piece : piece[i] = "="
    THEN LET kv == SplitFirst(piece, "=")
         IN  DictSet(partitions, kv[1], kv[2])
    ELSE partitions

\* PartitionManager.parse_partition_path(partition_path)
ParsePartitionPath(partition_path) ==
    LET pieces == Split(partition_path, "/")
        RECURSIVE Fold(_)
        Fold(n) == IF n = 0 THEN EmptyDict ELSE ParsePart(Fold(n - 1), pieces[n])
    IN  Fold(Len(pieces))

----------------------------------------------------------------------------
(* Inputs the callers draw from *)

Seeds == {SEED, 1}

\* states the streams can be in when the process starts (seeded from OS entropy)
Entropy == {5, 700}

TimeRanges ==
    { <<Date(2023, 12, 30), Date(2024, 1, 1)>>,
      <<Date(2024, 2, 28), Date(2024, 3, 1)>> }

ProductCounts == 1..2

ChangeRates == {0, 50, 100}

CustomerCounts == 1..2

GeoShapes == {<<1, 1, 2>>, <<2, 1, 1>>}

\* the order of characters in str comparison, over lower-case letters
Alphabet == <<"a", "b", "c", "d", "e", "f", "g", "h", "i", "j", "k", "l", "m", "n", "o", "p", "q", "r", "s", "t", "u", "v", "w", "x", "y", "z">>

\* a < b for str: the first differing character decides, a proper prefix is smaller
RECURSIVE TextLess(_, _)
TextLess(a, b) ==
    IF b = <<>> THEN FALSE
    ELSE IF a = <<>> THEN TRUE
    ELSE IF a[1] = b[1] THEN TextLess(Tail(a), Tail(b))
    ELSE (CHOOSE i \in DOMAIN Alphabet : Alphabet[i] = a[1]) < (CHOOSE i \in DOMAIN Alphabet : Alphabet[i] = b[1])

\* f"{value}" of a Python value: digits of an int, the text of a str
Format(value) == IF value.type = "int" THEN Str(value.val) ELSE value.val

\* sorted(partition_values.items()): the keys in ascending order
RECURSIVE SortedKeys(_)
SortedKeys(keys) ==
    IF keys = {} THEN <<>>
    ELSE LET lo == CHOOSE k \in keys : \A j \in keys : j = k \/ TextLess(k, j)
         IN  <<lo>> \o SortedKeys(keys \ {lo})

\* sep.join(parts)
RECURSIVE Join(_, _)
Join(parts, sep) ==
    IF parts = <<>> THEN <<>>
    ELSE IF Len(parts) = 1 THEN parts[1]
    ELSE parts[1] \o sep \o Join(Tail(parts), sep)

\* PartitionManager.build_partition_path(partition_values)
BuildPartitionPath(partition_values) ==
    LET keys == SortedKeys(DOMAIN partition_values)
        path_parts == [i \in DOMAIN keys |-> keys[i] \o <<"=">> \o Format(partition_values[keys[i]])]
    IN  Join(path_parts, <<"/">>)

----------------------------------------------------------------------------
(* datagen/schemas.py: referential integrity *)

\* the characters of a column name
ColumnText(name) ==
    CASE name = "time_key" -> <<"t", "i", "m", "e", "_", "k", "e", "y">>
      [] name = "geo_key" -> <<"g", "e", "o", "_", "k", "e", "y">>

\* str.lower() over the letters the table names use
Lower(s) ==
    [i \in DOMAIN s |-> CASE s[i] = "D" -> "d" [] s[i] = "T" -> "t" [] s[i] = "G" -> "g" [] OTHER -> s[i]]

\* s[i:] starts with the text t
StartsAt(s, i, t) == i + Len(t) - 1 <= Len(s) /\ SubSeq(s, i, i + Len(t) - 1) = t

\* needle in hay
Contains(hay, needle) == \E i \in 1..(Len(hay) + 1) : StartsAt(hay, i, needle)

\* s.replace(old, new): every occurrence, left to right
RECURSIVE Replace(_, _, _)
Replace(s, old, new) ==
    IF s = <<>> THEN <<>>
    ELSE IF StartsAt(s, 1, old) THEN new \o Replace(SubSeq(s, Len(old) + 1, Len(s)), old, new)
    ELSE <<s[1]>> \o Replace(SubSeq(s, 2, Len(s)), old, new)

\* sorted(list(keys)): ascending
RECURSIVE Sorted(_)
Sorted(keys) ==
    IF keys = {} THEN <<>>
    ELSE LET lo == CHOOSE k \in keys : \A j \in keys : k <= j
         IN  <<lo>> \o Sorted(keys \ {lo})

\* schemas.py:84, the slice [:10]
OrphanSampleLimit == 10

\* mutant: the samples are the first rows' values, unsorted and repeated
OrphanRecords_FirstRows(fact_df, fk_column, orphan_keys) ==
    LET vals == SelectSeq([i \in DOMAIN fact_df |-> fact_df[i][fk_column]], LAMBDA v : v \in orphan_keys)
    IN  SubSeq(vals, 1, Min(OrphanSampleLimit, Len(vals)))

\* sorted(list(orphan_keys))[:10]
OrphanRecords(fact_df, fk_column, orphan_keys) ==
    LET all == Sorted(orphan_keys)
    IN  SubSeq(all, 1, Min(OrphanSampleLimit, Len(all)))

\* the first table of dimension_dfs whose lower-cased name contains dim_name:
\* its position, 0 when there is none
FindDimension(dimension_dfs, dim_name) ==
    LET hits == {i \in DOMAIN dimension_dfs : Contains(Lower(dimension_dfs[i].name), dim_name)}
    IN  IF hits = {} THEN 0 ELSE CHOOSE i \in hits : \A j \in hits : i <= j

\* mutant: the orphan rows are dropped from the fact table
CheckReferentialIntegrity_Repairs(fact_df, dimension_dfs, foreign_keys) ==
    LET keep(r) == \A n \in DOMAIN foreign_keys :
                       LET k == FindDimension(dimension_dfs, Replace(ColumnText(foreign_keys[n].fk), <<"_", "k", "e", "y">>, <<>>))
                       IN  k = 0 \/ r[foreign_keys[n].fk] \in Column(dimension_dfs[k].df, foreign_keys[n].pk)
    IN  [status |-> "ok", valid |-> TRUE, orphan_counts |-> EmptyDict, orphan_records |-> EmptyDict,
         fact_df |-> SelectSeq(fact_df, keep), dimension_dfs |-> dimension_dfs]

\* check_referential_integrity(fact_df, dimension_dfs, foreign_keys): the result
\* dictionary, or the exception raised, and the frames as the call leaves them.
\* The dictionaries are in insertion order: dimension_dfs is a sequence of
\* [name, df], foreign_keys a sequence of [fk, pk].
CheckReferentialIntegrity(fact_df, dimension_dfs, foreign_keys) ==
    LET dim_name(n) == Replace(ColumnText(foreign_keys[n].fk), <<"_", "k", "e", "y">>, <<>>)
        dim_pos(n) == FindDimension(dimension_dfs, dim_name(n))
        valid_keys(n) == Column(dimension_dfs[dim_pos(n)].df, foreign_keys[n].pk)
        fact_keys(n) == Column(fact_df, foreign_keys[n].fk)
        orphan_keys(n) == fact_keys(n) \ valid_keys(n)
        RECURSIVE Loop(_, _)
        Loop(n, results) ==
            IF n > Len(foreign_keys) THEN results
            ELSE IF dim_pos(n) = 0 THEN [results EXCEPT !.status = "ValueError"]
            ELSE IF orphan_keys(n) # {}
            THEN Loop(n + 1, [results EXCEPT
                     !.valid = FALSE,
                     !.orphan_counts = DictSet(@, foreign_keys[n].fk, Cardinality(orphan_keys(n))),
                     !.orphan_records = DictSet(@, foreign_keys[n].fk,
                                                OrphanRecords(fact_df, foreign_keys[n].fk, orphan_keys(n)))])
            ELSE Loop(n + 1, results)
    IN  Loop(1, [status |-> "ok", valid |-> TRUE, orphan_counts |-> EmptyDict, orphan_records |-> EmptyDict,
                 fact_df |-> fact_df, dimension_dfs |-> dimension_dfs])

----------------------------------------------------------------------------
(* A session of dimension-generator calls *)

Init ==
    /\ streams \in {[py |-> e, faker |-> e, np |-> 5] : e \in Entropy}
    /\ today = 738000
    /\ dims = NoDims
    /\ table = NoTable
    /\ lastCall = NoCall
    /\ memoCall = NoCall
    /\ ncalls = 0
    /\ ndraws = 0
    /\ checked = NoCheck
    /\ part = NoPart
    /\ contexts = NoContexts
    /\ disk = NoDisk

\* bookkeeping shared by every generator call: the call returns `out` for `args`
Returned(fn, args, out) ==
    /\ ncalls' = ncalls + 1
    /\ lastCall' = [fn |-> fn, args |-> args, status |-> out.status, df |-> out.df]
    /\ memoCall' \in {memoCall, lastCall}
    /\ table' = [kind |-> fn, df |-> out.df]
    /\ streams' = out.st
    /\ checked' = NoCheck

CallGenerateDimTime ==
    /\ ncalls < MaxCalls
    /\ \E r \in TimeRanges, seed \in Seeds :
        /\ Returned("generate_dim_time", <<r[1], r[2], seed>>,
                    GenerateDimTime(r[1], r[2], seed, streams))
        /\ UNCHANGED <<today, dims, ndraws, part, contexts, disk>>

CallGenerateDimGeography ==
    /\ ncalls < MaxCalls
    /\ \E shape \in GeoShapes, seed \in Seeds :
        /\ Returned("generate_dim_geography", <<shape, seed>>,
                    GenerateDimGeography(shape[1], shape[2], shape[3], seed, streams))
        /\ UNCHANGED <<today, dims, ndraws, part, contexts, disk>>

CallGenerateDimProduct ==
    /\ ncalls < MaxCalls
    /\ \E num_products \in ProductCounts, change_rate \in ChangeRates, seed \in Seeds :
        /\ Returned("generate_dim_product", <<num_products, change_rate, seed>>,
                    GenerateDimProduct(num_products, change_rate, seed, streams))
        /\ UNCHANGED <<today, dims, ndraws, part, contexts, disk>>

CallGenerateDimCustomer ==
    /\ ncalls < MaxCalls
    /\ \E num_customers \in CustomerCounts, seed \in Seeds :
        /\ Returned("generate_dim_customer", <<num_customers, seed>>,
                    GenerateDimCustomer(num_customers, seed, streams, today))
        /\ UNCHANGED <<today, dims, ndraws, part, contexts, disk>>

CallGenerateDimPayment ==
    /\ ncalls < MaxCalls
    /\ \E seed \in Seeds :
        /\ Returned("generate_dim_payment", <<seed>>, GenerateDimPayment(seed, streams))
        /\ UNCHANGED <<today, dims, ndraws, part, contexts, disk>>

\* other code of the process draws once from Python's or Faker's stream
OtherDraw ==
    /\ ndraws < MaxOtherDraws
    /\ ndraws' = ndraws + 1
    /\ \E which \in {"py", "faker"} :
           streams' = [streams EXCEPT ![which] = Advance(@)]
    /\ UNCHANGED <<today, dims, table, lastCall, memoCall, ncalls, checked, part, contexts, disk>>

\* other code of the process draws once from numpy's global stream
OtherNumpyDraw ==
    /\ ndraws < MaxOtherDraws
    /\ ndraws' = ndraws + 1
    /\ streams' = [streams EXCEPT !.np = Advance(@)]
    /\ UNCHANGED <<today, dims, table, lastCall, memoCall, ncalls, checked, part, contexts, disk>>

\* midnight passes: date.today() moves on
DayPasses ==
    /\ today < 738000 + MaxDays
    /\ today' = today + 1
    /\ UNCHANGED <<streams, dims, table, lastCall, memoCall, ncalls, ndraws, checked, part, contexts, disk>>

Next ==
    \/ CallGenerateDimTime
    \/ CallGenerateDimGeography
    \/ CallGenerateDimProduct
    \/ CallGenerateDimCustomer
    \/ CallGenerateDimPayment
    \/ OtherDraw
    \/ DayPasses

Spec == Init /\ [][Next]_vars

----------------------------------------------------------------------------
(* A session of fact-generator calls over dimension tables already generated *)

PristineStreams == [py |-> 5, faker |-> 5, np |-> 5]

\* (num_products, change_rate, seed) of the product tables at hand
ProductInputs == {<<1, 0, SEED>>, <<2, 50, 1>>, <<3, 100, SEED>>}

\* the (product table, customer table) pairs at hand
InputPairs == {<<p, 3>> : p \in ProductInputs} \cup {<<<<2, 50, 1>>, 1>>}

FactInputs ==
    { [time |-> GenerateDimTime(r[1], r[2], SEED, PristineStreams).df,
       geo |-> GenerateDimGeography(1, 1, 2, SEED, PristineStreams).df,
       product |-> GenerateDimProduct(pc[1][1], pc[1][2], pc[1][3], PristineStreams).df,
       customer |-> GenerateDimCustomer(pc[2], SEED, PristineStreams, 738000).df,
       payment |-> GenerateDimPayment(SEED, PristineStreams).df]
      : r \in {<<Date(2023, 12, 30), Date(2024, 1, 1)>>}, pc \in InputPairs }

TransactionCounts == 1..MaxTransactions

ParetoFactors == {80}

InitFact ==
    /\ streams \in {[py |-> 5, faker |-> 5, np |-> e] : e \in Entropy}
    /\ today = 738000
    /\ dims \in FactInputs
    /\ table = NoTable
    /\ lastCall = NoCall
    /\ memoCall = NoCall
    /\ ncalls = 0
    /\ ndraws = 0
    /\ checked = NoCheck
    /\ part = NoPart
    /\ contexts = NoContexts
    /\ disk = NoDisk

CallGenerateSalesFact ==
    /\ ncalls < MaxFactCalls
    /\ \E num_transactions \in TransactionCounts, pareto_factor \in ParetoFactors, seed \in Seeds :
        /\ Returned("generate_sales_fact", <<num_transactions, pareto_factor, seed>>,
                    GenerateSalesFact(num_transactions, dims, pareto_factor, seed, streams))
        /\ UNCHANGED <<today, dims, ndraws, part, contexts, disk>>

\* validate_fact_measures(df) on the fact table at hand
CallValidateFactMeasures ==
    /\ table.kind = "generate_sales_fact"
    /\ lastCall.status = "ok"
    /\ LET v == ValidateFactMeasures(table.df)
       IN  /\ checked' = [fn |-> "validate_fact_measures", out |-> v.out]
           /\ table' = [table EXCEPT !.df = v.df]
    /\ UNCHANGED <<streams, today, dims, lastCall, memoCall, ncalls, ndraws, part, contexts, disk>>

NextFact ==
    \/ CallGenerateSalesFact
    \/ CallValidateFactMeasures
    \/ OtherDraw
    \/ OtherNumpyDraw

SpecFact == InitFact /\ [][NextFact]_vars

----------------------------------------------------------------------------
(* Claims about the dimension generators (checked under Spec) *)

CurrentRowsOf(df, pid) == SelectSeq(df, LAMBDA r : r.product_id = pid /\ r.is_current)

HistoricalRowsOf(df, pid) == SelectSeq(df, LAMBDA r : r.product_id = pid /\ ~r.is_current)

SameCallAsMemo(fn) ==
    /\ lastCall.fn = fn
    /\ memoCall.fn = fn
    /\ memoCall.args = lastCall.args

C6_TimeProductDeterministic ==
    \A fn \in {"generate_dim_time", "generate_dim_product"} :
        SameCallAsMemo(fn) => lastCall.df = memoCall.df

\* generate_dim_product repeated as the third call, after a draw by other code
C6_Witness ==
    /\ SameCallAsMemo("generate_dim_product")
    /\ Len(lastCall.df) >= 2
    /\ ncalls = 3
    /\ ndraws >= 1

\* C7: two calls of generate_dim_customer with the same arguments return equal
\* tables, also when the calls happen on different calendar days.
C7_CustomerDeterministic ==
    SameCallAsMemo("generate_dim_customer") => lastCall.df = memoCall.df

----------------------------------------------------------------------------
(* Claims about the fact generator (checked under SpecFact) *)

FactReturned == lastCall.fn = "generate_sales_fact" /\ lastCall.status = "ok"

RowsOfTransaction(df, tid) == SelectSeq(df, LAMBDA r : r.transaction_id = tid)

\* C1: every foreign key of every fact row is a primary key of the dimension
\* table passed to the call.
C1_ForeignKeysExist ==
    FactReturned =>
        \A i \in DOMAIN lastCall.df :
            /\ lastCall.df[i].time_key \in Column(dims.time, "time_key")
            /\ lastCall.df[i].geo_key \in Column(dims.geo, "geo_key")
            /\ lastCall.df[i].product_key \in Column(dims.product, "product_key")
            /\ lastCall.df[i].customer_key \in Column(dims.customer, "customer_key")
            /\ lastCall.df[i].payment_key \in Column(dims.payment, "payment_key")

\* a fact table over a product table with history, selling to a customer other
\* than the first
C1_Witness ==
    /\ FactReturned
    /\ Len(lastCall.df) >= 2
    /\ \E i \in DOMAIN dims.product : ~dims.product[i].is_current
    /\ \E i \in DOMAIN lastCall.df : lastCall.df[i].customer_key # 1

C4_ValidatorAccepts ==
    checked.fn = "validate_fact_measures" => checked.out = "True"

\* C5: two calls of generate_sales_fact with the same arguments, dimension
\* tables and seed return identical tables, whatever was drawn before or between.
C5_FactDeterministic ==
    SameCallAsMemo("generate_sales_fact") =>
        /\ lastCall.status = memoCall.status
        /\ lastCall.df = memoCall.df

\* C10: transaction_id values are exactly 1..N; every transaction has 1 to 5
\* rows whose line_item_id are 1..k in emission order; (transaction_id,
\* line_item_id) is unique; the row count is between N and 5N.
C10_TransactionShape ==
    FactReturned =>
        LET df == lastCall.df
            N == lastCall.args[1]
        IN  /\ Column(df, "transaction_id") = 1..N
            /\ \A tid \in 1..N :
                   LET rows == RowsOfTransaction(df, tid)
                   IN  /\ Len(rows) \in 1..5
                       /\ \A k \in DOMAIN rows : rows[k].line_item_id = k
            /\ \A i, j \in DOMAIN df :
                   (df[i].transaction_id = df[j].transaction_id
                    /\ df[i].line_item_id = df[j].line_item_id) => i = j
            /\ N <= Len(df)
            /\ Len(df) <= 5 * N

\* two transactions, one of them with at least three line items
C10_Witness ==
    /\ FactReturned
    /\ lastCall.args[1] = 2
    /\ \E tid \in 1..2 : Len(RowsOfTransaction(lastCall.df, tid)) >= 3
    /\ \E tid \in 1..2 : Len(RowsOfTransaction(lastCall.df, tid)) = 1

----------------------------------------------------------------------------
(* Calls of the partition-key functions on one date and one base path *)

\* a Python value with its type: 2023 and '2023' are different values
PyInt(n) == [type |-> "int", val |-> n]

PyStr(t) == [type |-> "str", val |-> t]

PyNone == [type |-> "none", val |-> 0]

PyEq(a, b) == a.type = b.type /\ a.val = b.val

YearKey == <<"y", "e", "a", "r">>

QuarterKey == <<"q", "u", "a", "r", "t", "e", "r">>

PartDates ==
    {Date(2023, m, 15) : m \in 1..12}
        \cup {Date(2024, 3, 31), Date(2024, 4, 1), Date(2024, 12, 31), Date(1999, 1, 1)}

\* pieces a base path is made of
BaseChunks == {<<"d">>, <<"/">>, <<"=">>, YearKey}

RECURSIVE ChunkSeqs(_)
ChunkSeqs(n) ==
    IF n = 0 THEN {<<>>}
    ELSE ChunkSeqs(n - 1) \cup {Append(q, c) : q \in ChunkSeqs(n - 1), c \in BaseChunks}

BasePaths == {Concat(q) : q \in ChunkSeqs(MaxBaseLen)}

InitPart ==
    /\ streams = PristineStreams
    /\ today = 738000
    /\ dims = NoDims
    /\ table = NoTable
    /\ lastCall = NoCall
    /\ memoCall = NoCall
    /\ ncalls = 0
    /\ ndraws = 0
    /\ checked = NoCheck
    /\ part \in {[fn |-> "none", date |-> d, base |-> b, path |-> <<>>, built |-> FALSE,
                  parsed |-> EmptyDict, year |-> PyNone, quarter |-> PyNone]
                 : d \in PartDates, b \in BasePaths}
    /\ contexts = NoContexts
    /\ disk = NoDisk

\* facts.partition_path(date, base)
CallPartitionPath ==
    /\ part' = [part EXCEPT !.fn = "partition_path",
                            !.path = PartitionPath(part.date, part.base),
                            !.built = TRUE,
                            !.parsed = EmptyDict, !.year = PyNone, !.quarter = PyNone]
    /\ UNCHANGED <<streams, today, dims, table, lastCall, memoCall, ncalls, ndraws, checked, contexts, disk>>

\* PartitionManager.parse_partition_path on the path built before
CallParsePartitionPath ==
    /\ part.built
    /\ part' = [part EXCEPT !.fn = "parse_partition_path",
                            !.parsed = ParsePartitionPath(part.path),
                            !.year = PyNone, !.quarter = PyNone]
    /\ UNCHANGED <<streams, today, dims, table, lastCall, memoCall, ncalls, ndraws, checked, contexts, disk>>

\* facts.extract_partition_keys(date)
CallExtractPartitionKeys ==
    /\ LET keys == ExtractPartitionKeys(part.date)
       IN  part' = [part EXCEPT !.fn = "extract_partition_keys", !.parsed = EmptyDict,
                                !.year = PyStr(keys.year),
                                !.quarter = PyStr(keys.quarter)]
    /\ UNCHANGED <<streams, today, dims, table, lastCall, memoCall, ncalls, ndraws, checked, contexts, disk>>

\* PartitionManager.extract_year_quarter(date)
CallExtractYearQuarter ==
    /\ LET yq == ExtractYearQuarter(part.date)
       IN  part' = [part EXCEPT !.fn = "extract_year_quarter", !.parsed = EmptyDict,
                                !.year = PyInt(yq[1]),
                                !.quarter = PyStr(yq[2])]
    /\ UNCHANGED <<streams, today, dims, table, lastCall, memoCall, ncalls, ndraws, checked, contexts, disk>>

\* PartitionManager.add_partition_columns on a one-row frame dated `date`
CallAddPartitionColumns ==
    /\ LET out == AddPartitionColumns(<<[transaction_id |-> 1, transaction_date |-> part.date]>>,
                                      "transaction_date")
       IN  part' = [part EXCEPT !.fn = "add_partition_columns", !.parsed = EmptyDict,
                                !.year = PyInt(out[1].year),
                                !.quarter = PyStr(out[1].quarter)]
    /\ UNCHANGED <<streams, today, dims, table, lastCall, memoCall, ncalls, ndraws, checked, contexts, disk>>

\* generate_dim_time(date, date, seed): the row of the time dimension for `date`
CallGenerateDimTimeRow ==
    \E seed \in Seeds :
        LET out == GenerateDimTime(part.date, part.date, seed, streams)
        IN  /\ part' = [part EXCEPT !.fn = "generate_dim_time", !.parsed = EmptyDict,
                                    !.year = PyInt(out.df[1].year),
                                    !.quarter = PyStr(out.df[1].quarter)]
            /\ streams' = out.st
            /\ UNCHANGED <<today, dims, table, lastCall, memoCall, ncalls, ndraws, checked, contexts, disk>>

\* PartitionManager.build_partition_path({'year': y, 'quarter': q}) on the keys
\* of the date at hand, the year as extract_year_quarter gives it (int) or as
\* extract_partition_keys gives it (str)
CallBuildPartitionPath ==
    /\ \E year \in {PyInt(ExtractYearQuarter(part.date)[1]), PyStr(ExtractPartitionKeys(part.date).year)} :
        LET partition_values == (YearKey :> year) @@ (QuarterKey :> PyStr(ExtractYearQuarter(part.date)[2]))
        IN  part' = [part EXCEPT !.fn = "build_partition_path",
                                 !.path = BuildPartitionPath(partition_values),
                                 !.built = TRUE,
                                 !.parsed = EmptyDict,
                                 !.year = partition_values[YearKey],
                                 !.quarter = partition_values[QuarterKey]]
    /\ UNCHANGED <<streams, today, dims, table, lastCall, memoCall, ncalls, ndraws, checked, contexts, disk>>

NextPart ==
    \/ CallPartitionPath
    \/ CallParsePartitionPath
    \/ CallExtractPartitionKeys
    \/ CallExtractYearQuarter
    \/ CallAddPartitionColumns
    \/ CallGenerateDimTimeRow
    \/ CallBuildPartitionPath

SpecPart == InitPart /\ [][NextPart]_vars

----------------------------------------------------------------------------
(* Claims about the partition-key model (checked under SpecPart) *)

\* 'Q' + ((d.month - 1) // 3 + 1), written out month by month
ExpectedQuarter(d) ==
    IF d.month \in {1, 2, 3} THEN <<"Q", "1">>
    ELSE IF d.month \in {4, 5, 6} THEN <<"Q", "2">>
    ELSE IF d.month \in {7, 8, 9} THEN <<"Q", "3">>
    ELSE <<"Q", "4">>

\* str(d.year) for a four-digit year, digit by digit
ExpectedYearText(d) ==
    <<Digit(d.year \div 1000), Digit((d.year \div 100) % 10),
      Digit((d.year \div 10) % 10), Digit(d.year % 10)>>

YearQuarterFunctions ==
    {"extract_partition_keys", "extract_year_quarter", "add_partition_columns",
     "generate_dim_time"}

C9_PartitionRoundTrip ==
    part.fn = "parse_partition_path" =>
        /\ YearKey \in DOMAIN part.parsed
        /\ QuarterKey \in DOMAIN part.parsed
        /\ part.parsed[YearKey] = ExpectedYearText(part.date)
        /\ part.parsed[QuarterKey] = ExpectedQuarter(part.date)
        /\ part.parsed[YearKey] = ExtractPartitionKeys(part.date).year
        /\ part.parsed[QuarterKey] = ExtractPartitionKeys(part.date).quarter

\* a base path that itself holds a 'year=...' segment with another value
C9_Witness ==
    /\ part.fn = "parse_partition_path"
    /\ YearKey \in DOMAIN ParsePartitionPath(part.base)
    /\ ParsePartitionPath(part.base)[YearKey] # part.parsed[YearKey]

----------------------------------------------------------------------------
(* One generate_sales_fact call for each seed of a range: the seed sets the    *)
(* state of Python's stream, so the range covers every state it can start in   *)

\* largest seed tried
MaxSeed == 1023

AllSeeds == 0..MaxSeed

InitSeeds ==
    /\ streams = PristineStreams
    /\ today = 738000
    /\ dims \in FactInputs
    /\ table = NoTable
    /\ lastCall = NoCall
    /\ memoCall = NoCall
    /\ ncalls = 0
    /\ ndraws = 0
    /\ checked = NoCheck
    /\ part = NoPart
    /\ contexts = NoContexts
    /\ disk = NoDisk

\* the first generate_sales_fact call of a process
CallGenerateSalesFactSeed ==
    /\ ncalls = 0
    /\ \E num_transactions \in TransactionCounts, pareto_factor \in ParetoFactors, seed \in AllSeeds :
        /\ Returned("generate_sales_fact", <<num_transactions, pareto_factor, seed>>,
                    GenerateSalesFact(num_transactions, dims, pareto_factor, seed, streams))
        /\ UNCHANGED <<today, dims, ndraws, part, contexts, disk>>

NextSeeds == CallGenerateSalesFactSeed

SpecSeeds == InitSeeds /\ [][NextSeeds]_vars

----------------------------------------------------------------------------
(* Claims about single fact rows (checked under SpecSeeds) *)

\* the rows of the product table passed to the call that carry a product_key
ProductRowsOf(product_key) == SelectSeq(dims.product, LAMBDA p : p.product_key = product_key)

\* C11: in every fact row the date part of transaction_timestamp is
\* transaction_date and the time of day lies in [08:00:00, 22:00:00).
C11_TimestampOnDate ==
    FactReturned =>
        \A i \in DOMAIN lastCall.df :
            LET r == lastCall.df[i]
            IN  /\ r.transaction_timestamp.date = r.transaction_date
                /\ r.transaction_timestamp.hour \in 8..21
                /\ r.transaction_timestamp.minute \in 0..59
                /\ r.transaction_timestamp.second \in 0..59

\* a fact table with a sale in the last business hour and one in the first
C11_Witness ==
    /\ FactReturned
    /\ \E i \in DOMAIN lastCall.df : lastCall.df[i].transaction_timestamp.hour = 21
    /\ \E i \in DOMAIN lastCall.df : lastCall.df[i].transaction_timestamp.hour = 8

\* C12: the product row a fact row references is a current one, also when the
\* product table holds historical versions.
C12_OnlyCurrentProductsSold ==
    FactReturned =>
        \A i \in DOMAIN lastCall.df :
            LET rows == ProductRowsOf(lastCall.df[i].product_key)
            IN  /\ Len(rows) = 1
                /\ rows[1].is_current

\* a fact table selling two different products out of a product table whose
\* first row is a historical version
C12_Witness ==
    /\ FactReturned
    /\ ~dims.product[1].is_current
    /\ Cardinality(Column(lastCall.df, "product_key")) >= 2

\* some jitter j in [0.95, 1.05] has round(base * j, 2) = unit_price: the
\* amounts that round to unit_price (ties go to the even cent) meet the
\* interval [0.95 * base, 1.05 * base]
WithinJitter(unit_price, base) ==
    /\ \/ 21 * base * 2 > 20 * (2 * unit_price - 1)
       \/ 21 * base * 2 = 20 * (2 * unit_price - 1) /\ unit_price % 2 = 0
    /\ \/ 19 * base * 2 < 20 * (2 * unit_price + 1)
       \/ 19 * base * 2 = 20 * (2 * unit_price + 1) /\ unit_price % 2 = 0

\* C14: with p the product row a fact row references, cost is
\* round(quantity * p.unit_cost, 2) and unit_price is round(p.unit_price * j, 2)
\* for some j in [0.95, 1.05].
C14_PriceAndCostFromProduct ==
    FactReturned =>
        \A i \in DOMAIN lastCall.df :
            LET r == lastCall.df[i]
                rows == ProductRowsOf(r.product_key)
            IN  /\ Len(rows) = 1
                /\ r.cost = r.quantity * rows[1].unit_cost
                /\ WithinJitter(r.unit_price, rows[1].unit_price)

\* a fact table selling several units of one product and one unit of another,
\* one above and one below the list price
C14_Witness ==
    /\ FactReturned
    /\ \E i, j \in DOMAIN lastCall.df :
           /\ lastCall.df[i].product_key # lastCall.df[j].product_key
           /\ lastCall.df[i].quantity >= 2
           /\ lastCall.df[j].quantity = 1
           /\ lastCall.df[i].unit_price > ProductRowsOf(lastCall.df[i].product_key)[1].unit_price
           /\ lastCall.df[j].unit_price < ProductRowsOf(lastCall.df[j].product_key)[1].unit_price

----------------------------------------------------------------------------
(* One pass of the line-item loop, for values the stream can yield *)

\* values one random call can receive from the stream: both ends of its range,
\* the two sides of the discount threshold, and the middle
DrawSamples == {0, 1, Modulus \div 5, (Modulus \div 5) + 1, Modulus \div 2, Modulus - 1}

\* the shared fields of a transaction on the first row of every dimension
FirstTransaction ==
    [transaction_id |-> 1,
     transaction_date |-> dims.time[1].date,
     transaction_timestamp |-> Timestamp(dims.time[1].date, 8, 0, 0),
     time_key |-> dims.time[1].time_key,
     geo_key |-> dims.geo[1].geo_key,
     customer_key |-> CustomerKeyAt(dims.customer, 0),
     payment_key |-> dims.payment[1].payment_key]

InitLine ==
    /\ streams = PristineStreams
    /\ today = 738000
    /\ dims \in FactInputs
    /\ table = NoTable
    /\ lastCall = NoCall
    /\ memoCall = NoCall
    /\ ncalls = 0
    /\ ndraws = 0
    /\ checked = NoCheck
    /\ part = NoPart
    /\ contexts = NoContexts
    /\ disk = NoDisk

\* the first line item of the first transaction
EmitLineItem ==
    /\ ncalls = 0
    /\ \E product_idx \in 0..(Len(CurrentProducts(dims.product)) - 1),
          jitter_draw \in DrawSamples, quantity_draw \in DrawSamples,
          discount_draw \in DrawSamples, pct_draw \in DrawSamples :
        /\ Returned("line_item",
                    <<product_idx, jitter_draw, quantity_draw, discount_draw, pct_draw>>,
                    [status |-> "ok",
                     df |-> <<LineItemRecord(FirstTransaction, 1,
                                             ProductRecordAt(CurrentProducts(dims.product), product_idx),
                                             jitter_draw, quantity_draw, discount_draw, pct_draw)>>,
                     st |-> streams])
        /\ UNCHANGED <<today, dims, ndraws, part, contexts, disk>>

NextLine == EmitLineItem

SpecLine == InitLine /\ [][NextLine]_vars

----------------------------------------------------------------------------
(* Claims about the measures of a line item (checked under SpecLine) *)

LineEmitted == lastCall.fn = "line_item"

\* round(quantity * unit_price, 2) of a fact row: its revenue before discount
PreDiscountRevenue(r) == r.quantity * r.unit_price

\* quantity, price, revenue, cost and discount of a row are in range
MeasuresInRange(r) ==
    /\ r.quantity \in 1..5
    /\ r.unit_price > 0
    /\ r.revenue >= 0
    /\ r.cost >= 0
    /\ r.discount_amount >= 0
    /\ r.discount_amount <= PreDiscountRevenue(r)

\* C13 as stated: the measures are in range and the discount is 0 or between
\* 5% and 25% of the revenue before discount.
C13_MeasureBoundsExact ==
    LineEmitted =>
        LET r == lastCall.df[1]
        IN  /\ MeasuresInRange(r)
            /\ \/ r.discount_amount = 0
               \/ /\ 20 * r.discount_amount >= PreDiscountRevenue(r)
                  /\ 4 * r.discount_amount <= PreDiscountRevenue(r)

\* C13 amended: the measures are in range and the discount is 0 or within half
\* a cent of a value between 5% and 25% of the revenue before discount.
C13_MeasureBoundsRounded ==
    LineEmitted =>
        LET r == lastCall.df[1]
        IN  /\ MeasuresInRange(r)
            /\ \/ r.discount_amount = 0
               \/ /\ 20 * (2 * r.discount_amount + 1) >= 2 * PreDiscountRevenue(r)
                  /\ 4 * (2 * r.discount_amount - 1) <= 2 * PreDiscountRevenue(r)

\* a row of several units whose discount is rounded to a cent amount below 5%
C13_Witness ==
    /\ LineEmitted
    /\ lastCall.df[1].quantity > 1
    /\ lastCall.df[1].discount_amount > 0
    /\ 20 * lastCall.df[1].discount_amount < PreDiscountRevenue(lastCall.df[1])

----------------------------------------------------------------------------
(* Calls of the weight model *)

\* largest population weighted
MaxItems == 12

ItemCounts == 0..MaxItems

\* pareto_factor arguments, in hundredths
Factors == {0, 10, 20, 50, 80, 90, 99}

CallCreateParetoWeights ==
    /\ ncalls = 0
    /\ \E n \in ItemCounts, factor \in Factors :
        /\ Returned("_create_pareto_weights", <<n, factor>>,
                    [status |-> "ok", df |-> CreateParetoWeights(n, factor), st |-> streams])
        /\ UNCHANGED <<today, dims, ndraws, part, contexts, disk>>

NextWeights == CallCreateParetoWeights

SpecWeights == Init /\ [][NextWeights]_vars

----------------------------------------------------------------------------
(* Claims about the weight model (checked under SpecWeights) *)

\* the fraction a/b equals the fraction w
FracEq(w, a, b) == w.num * b = a * w.den

\* the sum of the fractions ws[1..k], as a fraction in lowest terms
RECURSIVE FracSum(_, _)
FracSum(ws, k) ==
    IF k = 0 THEN [num |-> 0, den |-> 1]
    ELSE LET rest == FracSum(ws, k - 1)
             num == rest.num * ws[k].den + ws[k].num * rest.den
             den == rest.den * ws[k].den
             g == Gcd(num, den)
         IN  [num |-> num \div g, den |-> den \div g]

ParetoReturned == lastCall.fn = "_create_pareto_weights"

\* C15: for n >= 2, with top = max(1, floor(0.2 * n)), the first top weights
\* are factor / top, the others (1 - factor) / (n - top); the weights sum to 1
\* and the first top of them to factor.
C15_ParetoWeights ==
    (ParetoReturned /\ lastCall.args[1] >= 2) =>
        LET n == lastCall.args[1]
            factor == lastCall.args[2]
            w == lastCall.df
            top == IF n >= 10 THEN n \div 5 ELSE 1
        IN  /\ Len(w) = n
            /\ \A i \in 1..top : FracEq(w[i], factor, 100 * top)
            /\ \A i \in (top + 1)..n : FracEq(w[i], 100 - factor, 100 * (n - top))
            /\ FracEq(FracSum(w, n), 1, 1)
            /\ FracEq(FracSum(w, top), factor, 100)

\* weights for a population with two top items
C15_Witness ==
    /\ ParetoReturned
    /\ lastCall.args[1] >= 10
    /\ lastCall.args[2] = 80
    /\ FracEq(lastCall.df[2], 40, 100)

\* C16: for a population of one item the weight vector is [1.0].
C16_SingleItemWeightIsOne ==
    (ParetoReturned /\ lastCall.args[1] = 1) =>
        /\ Len(lastCall.df) = 1
        /\ FracEq(lastCall.df[1], 1, 1)

----------------------------------------------------------------------------
(* Calls of generate_dim_time over date ranges, and of its validator *)

\* (start_date, end_date) arguments: single days, month ends, leap and
\* non-leap Februaries, a year end, the ends of the validator's key range, and
\* a start after the end
TimeSpans ==
    { <<Date(2024, 1, 1), Date(2024, 1, 1)>>,
      <<Date(2024, 2, 27), Date(2024, 3, 2)>>,
      <<Date(2023, 2, 27), Date(2023, 3, 2)>>,
      <<Date(1900, 2, 27), Date(1900, 3, 1)>>,
      <<Date(2000, 2, 28), Date(2000, 3, 1)>>,
      <<Date(2023, 12, 30), Date(2024, 1, 2)>>,
      <<Date(2024, 4, 29), Date(2024, 5, 1)>>,
      <<Date(2024, 1, 31), Date(2024, 3, 31)>>,
      <<Date(1900, 1, 1), Date(1900, 1, 3)>>,
      <<Date(2100, 12, 30), Date(2100, 12, 31)>>,
      <<Date(2100, 12, 31), Date(2101, 1, 1)>>,
      <<Date(1899, 12, 31), Date(1900, 1, 1)>>,
      <<Date(2024, 1, 2), Date(2024, 1, 1)>> }

CallGenerateDimTimeSpan ==
    /\ ncalls < MaxCalls
    /\ \E r \in TimeSpans, seed \in Seeds :
        /\ Returned("generate_dim_time", <<r[1], r[2], seed>>,
                    GenerateDimTime(r[1], r[2], seed, streams))
        /\ UNCHANGED <<today, dims, ndraws, part, contexts, disk>>

\* validate_time_dimension(df) on the time table at hand
CallValidateTimeDimension ==
    /\ table.kind = "generate_dim_time"
    /\ LET v == ValidateTimeDimension(table.df)
       IN  /\ checked' = [fn |-> "validate_time_dimension", out |-> v.out]
           /\ table' = [table EXCEPT !.df = v.df]
    /\ UNCHANGED <<streams, today, dims, lastCall, memoCall, ncalls, ndraws, part, contexts, disk>>

NextTime ==
    \/ CallGenerateDimTimeSpan
    \/ CallValidateTimeDimension

SpecTime == Init /\ [][NextTime]_vars

----------------------------------------------------------------------------
(* Claims about the time dimension (checked under SpecTime) *)

\* the number of the day in the proleptic Gregorian calendar (days since
\* 0000-03-01), computed from the 400-year cycle
DateOrdinal(d) ==
    LET y == IF d.month <= 2 THEN d.year - 1 ELSE d.year
        era == y \div 400
        yoe == y - era * 400
        mp == (d.month + 9) % 12
        doy == (153 * mp + 2) \div 5 + d.day - 1
    IN  era * 146097 + yoe * 365 + yoe \div 4 - yoe \div 100 + doy

TimeReturned == lastCall.fn = "generate_dim_time"

C18_TimeKeyFromDate ==
    /\ TimeReturned =>
           LET df == lastCall.df
           IN  /\ \A i \in DOMAIN df :
                      df[i].time_key = df[i].date.year * 10000 + df[i].date.month * 100
                                           + df[i].date.day
               /\ \A i, j \in DOMAIN df : df[i].time_key = df[j].time_key => i = j
    /\ (/\ TimeReturned
        /\ checked.fn = "validate_time_dimension"
        /\ \A i \in DOMAIN lastCall.df :
               /\ DateOrdinal(Date(1900, 1, 1)) <= DateOrdinal(lastCall.df[i].date)
               /\ DateOrdinal(lastCall.df[i].date) <= DateOrdinal(Date(2100, 12, 31)))
           => checked.out = "True"

\* a validated table of two months, reaching from January into March
C18_Witness ==
    /\ TimeReturned
    /\ checked.fn = "validate_time_dimension"
    /\ checked.out = "True"
    /\ Len(lastCall.df) > 31
    /\ \E i \in DOMAIN table.df : table.df[i].expected_key = 20240301

----------------------------------------------------------------------------
(* Generator calls on empty tables and with counts that are not positive *)

\* the tables of one full generation run
EdgeBase ==
    [time |-> GenerateDimTime(Date(2023, 12, 30), Date(2024, 1, 1), SEED, PristineStreams).df,
     geo |-> GenerateDimGeography(1, 1, 2, SEED, PristineStreams).df,
     product |-> GenerateDimProduct(2, 50, 1, PristineStreams).df,
     customer |-> GenerateDimCustomer(3, SEED, PristineStreams, 738000).df,
     payment |-> GenerateDimPayment(SEED, PristineStreams).df]

\* the full tables, and the same tables with one of them empty or with a
\* product table holding historical versions only
EdgeInputs ==
    { EdgeBase,
      [EdgeBase EXCEPT !.time = <<>>],
      [EdgeBase EXCEPT !.geo = <<>>],
      [EdgeBase EXCEPT !.customer = <<>>],
      [EdgeBase EXCEPT !.payment = <<>>],
      [EdgeBase EXCEPT !.product = <<>>],
      [EdgeBase EXCEPT !.product = SelectSeq(@, LAMBDA r : ~r.is_current)] }

\* num_transactions arguments, positive or not
EdgeTransactionCounts == -1..MaxTransactions

\* num_products / num_customers arguments, positive or not
EdgeCounts == -1..1

InitEdge ==
    /\ streams = PristineStreams
    /\ today = 738000
    /\ dims \in EdgeInputs
    /\ table = NoTable
    /\ lastCall = NoCall
    /\ memoCall = NoCall
    /\ ncalls = 0
    /\ ndraws = 0
    /\ checked = NoCheck
    /\ part = NoPart
    /\ contexts = NoContexts
    /\ disk = NoDisk

CallGenerateSalesFactEdge ==
    /\ ncalls < MaxFactCalls
    /\ \E num_transactions \in EdgeTransactionCounts, pareto_factor \in ParetoFactors, seed \in Seeds :
        /\ Returned("generate_sales_fact", <<num_transactions, pareto_factor, seed>>,
                    GenerateSalesFact(num_transactions, dims, pareto_factor, seed, streams))
        /\ UNCHANGED <<today, dims, ndraws, part, contexts, disk>>

CallGenerateDimProductEdge ==
    /\ ncalls < MaxFactCalls
    /\ \E num_products \in EdgeCounts, change_rate \in ChangeRates, seed \in Seeds :
        /\ Returned("generate_dim_product", <<num_products, change_rate, seed>>,
                    GenerateDimProduct(num_products, change_rate, seed, streams))
        /\ UNCHANGED <<today, dims, ndraws, part, contexts, disk>>

CallGenerateDimCustomerEdge ==
    /\ ncalls < MaxFactCalls
    /\ \E num_customers \in EdgeCounts, seed \in Seeds :
        /\ Returned("generate_dim_customer", <<num_customers, seed>>,
                    GenerateDimCustomer(num_customers, seed, streams, today))
        /\ UNCHANGED <<today, dims, ndraws, part, contexts, disk>>

NextEdge ==
    \/ CallGenerateSalesFactEdge
    \/ CallGenerateDimProductEdge
    \/ CallGenerateDimCustomerEdge

SpecEdge == InitEdge /\ [][NextEdge]_vars

----------------------------------------------------------------------------
(* Claims about failure modes (checked under SpecEdge) *)

\* one of the tables passed to generate_sales_fact is empty, or the product
\* table has no current row
SomeInputEmpty ==
    \/ dims.time = <<>>
    \/ dims.geo = <<>>
    \/ dims.customer = <<>>
    \/ dims.payment = <<>>
    \/ \A i \in DOMAIN dims.product : ~dims.product[i].is_current

\* C19: generate_sales_fact with num_transactions >= 1 and an empty input fails
\* before any fact row is emitted and returns no table.
C19_EmptyInputFails ==
    (lastCall.fn = "generate_sales_fact" /\ lastCall.args[1] >= 1 /\ SomeInputEmpty) =>
        /\ lastCall.status = "error"
        /\ lastCall.df = <<>>
        /\ \A np \in Entropy :
               GenerateSalesFact(lastCall.args[1], dims, lastCall.args[2], lastCall.args[3],
                                 [streams EXCEPT !.np = np]).emitted = 0

\* a failed call for two transactions over a product table that holds
\* historical versions only
C19_Witness ==
    /\ lastCall.fn = "generate_sales_fact"
    /\ lastCall.args[1] = 2
    /\ lastCall.status = "error"
    /\ dims.product # <<>>
    /\ \A i \in DOMAIN dims.product : ~dims.product[i].is_current

\* C20: generate_sales_fact, generate_dim_product and generate_dim_customer
\* raise an error when their count argument is not positive.
C20_NonPositiveCountFails ==
    (/\ lastCall.fn \in {"generate_sales_fact", "generate_dim_product", "generate_dim_customer"}
     /\ lastCall.args[1] <= 0)
        => lastCall.status = "error"

----------------------------------------------------------------------------
(* Validators applied to tables of any content, not only generated ones *)

\* rows of a fact table handed to the integrity check
MaxFactRows == 12

\* a key column of n rows: base + (i * step) % span for row i
KeyColumn(n, base, step, span) == [i \in 1..n |-> base + ((i * step) % span)]

KeyColumns(n) == {KeyColumn(n, base, step, span) : base \in {1, 20}, step \in {1, 7}, span \in {3, MaxFactRows + 1}}

FactSizes == {0, 1, 5, MaxFactRows}

FactTables ==
    UNION {{[i \in 1..n |-> [time_key |-> tk[i], geo_key |-> gk[i]]] : tk \in KeyColumns(n), gk \in KeyColumns(n)} : n \in FactSizes}

\* primary keys 1..3 of the time table, 1..2 of the geography table
KeyedDims ==
    [NoDims EXCEPT !.time = [k \in 1..3 |-> [time_key |-> k]], !.geo = [k \in 1..2 |-> [geo_key |-> k]]]

DimTimeName == <<"d", "i", "m", "_", "t", "i", "m", "e">>

DimGeographyName == <<"d", "i", "m", "_", "g", "e", "o", "g", "r", "a", "p", "h", "y">>

\* the dimension_dfs dictionaries built over the tables d
DimensionDicts(d) ==
    LET time(name) == [name |-> name, slot |-> "time", df |-> d.time]
        geo(name) == [name |-> name, slot |-> "geo", df |-> d.geo]
    IN  { <<time(DimTimeName), geo(DimGeographyName)>>,
          <<geo(DimGeographyName), time(DimTimeName)>>,
          <<time(<<"D", "i", "m", "_", "T", "i", "m", "e">>), geo(<<"G", "e", "o">>)>>,
          <<time(DimTimeName)>> }

ForeignKeyMaps ==
    LET time == [fk |-> "time_key", pk |-> "time_key"]
        geo == [fk |-> "geo_key", pk |-> "geo_key"]
    IN  { <<time, geo>>, <<geo, time>>, <<time>>, <<geo>>, <<>> }

\* the tables of d as the dictionary dimension_dfs holds them after a call
DimsAfter(d, dimension_dfs) ==
    [k \in DOMAIN d |->
        IF \E i \in DOMAIN dimension_dfs : dimension_dfs[i].slot = k
        THEN dimension_dfs[CHOOSE i \in DOMAIN dimension_dfs : dimension_dfs[i].slot = k].df
        ELSE d[k]]

\* versions of one product in a table of the SCD checks
MaxVersions == 3

ScdDates == <<Date(2020, 1, 1), Date(2021, 6, 15), Date(2023, 1, 1), Date(9999, 12, 31)>>

\* any row: either product, any two dates, current or not
ScdRows ==
    {[product_id |-> pid, effective_date |-> ScdDates[a], expiration_date |-> ScdDates[b], is_current |-> cur] :
        pid \in {"PROD-00001", "PROD-00002"}, a \in DOMAIN ScdDates, b \in DOMAIN ScdDates, cur \in BOOLEAN}

\* rows with effective_date < expiration_date: every version of the first
\* product, one interval of the second
ScdVersionRows ==
    {r \in ScdRows : /\ DateLT(r.effective_date, r.expiration_date)
                     /\ r.product_id = "PROD-00002" => (r.effective_date = ScdDates[2] /\ r.expiration_date = ScdDates[3])}

RECURSIVE SeqsOf(_, _)
SeqsOf(rows, n) == IF n = 0 THEN {<<>>} ELSE {Append(t, r) : t \in SeqsOf(rows, n - 1), r \in rows}

\* tables of up to two rows of any kind, and of three up to n version rows
ProductTables(n) ==
    SeqsOf(ScdRows, 0) \cup SeqsOf(ScdRows, 1) \cup SeqsOf(ScdRows, 2)
        \cup UNION {SeqsOf(ScdVersionRows, k) : k \in 3..n}

ValidTables(n) ==
    {[kind |-> "fact_sales", df |-> df] : df \in FactTables}
        \cup {[kind |-> "dim_product", df |-> df] : df \in ProductTables(n)}

InitValid ==
    /\ streams = PristineStreams
    /\ today = 738000
    /\ dims = KeyedDims
    /\ table \in ValidTables(MaxVersions)
    /\ lastCall = [fn |-> table.kind, args |-> <<>>, status |-> "ok", df |-> table.df]
    /\ memoCall = NoCall
    /\ ncalls = 0
    /\ ndraws = 0
    /\ checked = NoCheck
    /\ part = NoPart
    /\ contexts = NoContexts
    /\ disk = NoDisk

\* validate_scd_type2(df) on the product table at hand
CallValidateScdType2 ==
    /\ table.kind = "dim_product"
    /\ ncalls = 0
    /\ checked' = [fn |-> "validate_scd_type2", out |-> ValidateScdType2(table.df)]
    /\ ncalls' = ncalls + 1
    /\ UNCHANGED <<streams, today, dims, table, lastCall, memoCall, ndraws, part, contexts, disk>>

\* check_referential_integrity(fact, dimension_dfs, foreign_keys) on the tables at hand
CallCheckReferentialIntegrity ==
    /\ table.kind = "fact_sales"
    /\ ncalls = 0
    /\ \E dimension_dfs \in DimensionDicts(dims), foreign_keys \in ForeignKeyMaps :
        LET r == CheckReferentialIntegrity(table.df, dimension_dfs, foreign_keys)
        IN  /\ checked' = [fn |-> "check_referential_integrity",
                           out |-> [status |-> r.status, valid |-> r.valid,
                                    orphan_counts |-> r.orphan_counts,
                                    orphan_records |-> r.orphan_records]]
            /\ lastCall' = [lastCall EXCEPT !.args = <<dims, dimension_dfs, foreign_keys>>]
            /\ table' = [table EXCEPT !.df = r.fact_df]
            /\ dims' = DimsAfter(dims, r.dimension_dfs)
    /\ ncalls' = ncalls + 1
    /\ UNCHANGED <<streams, today, memoCall, ndraws, part, contexts, disk>>

NextValid ==
    \/ CallCheckReferentialIntegrity
    \/ CallValidateScdType2

SpecValid == InitValid /\ [][NextValid]_vars

----------------------------------------------------------------------------
(* Claims about the validators (checked under SpecValid) *)

IntegrityChecked == checked.fn = "check_referential_integrity"

\* the primary-key values of the dimension table a foreign-key column refers to
MatchingKeys(d, fk) == IF fk = "time_key" THEN Column(d.time, "time_key") ELSE Column(d.geo, "geo_key")

\* the dictionary holds the dimension table a foreign-key column refers to
MatchingPresent(dimension_dfs, fk) ==
    \E i \in DOMAIN dimension_dfs : dimension_dfs[i].slot = (IF fk = "time_key" THEN "time" ELSE "geo")

\* s lists, ascending, the smallest values of keys: all of them, or ten
SmallestAscending(s, keys) ==
    /\ Len(s) = (IF Cardinality(keys) < 10 THEN Cardinality(keys) ELSE 10)
    /\ \A i \in DOMAIN s : s[i] \in keys
    /\ \A i \in 1..(Len(s) - 1) : s[i] < s[i + 1]
    /\ \A k \in keys : (\A i \in DOMAIN s : s[i] # k) => \A i \in DOMAIN s : s[i] < k

\* C21: check_referential_integrity returns valid = True exactly when every
\* foreign-key value of the fact table is a primary key of the matching
\* dimension; a column with orphans gets the number of distinct orphan values
\* as its count and the (at most ten) smallest of them, ascending, as samples;
\* orphans are reported, not raised.
C21_IntegrityReport ==
    IntegrityChecked =>
        LET d == lastCall.args[1]
            dimension_dfs == lastCall.args[2]
            foreign_keys == lastCall.args[3]
            out == checked.out
            columns == {foreign_keys[n].fk : n \in DOMAIN foreign_keys}
            orphans(fk) == Column(lastCall.df, fk) \ MatchingKeys(d, fk)
            with_orphans == {fk \in columns : orphans(fk) # {}}
        IN  (\A fk \in columns : MatchingPresent(dimension_dfs, fk)) =>
                /\ out.status = "ok"
                /\ out.valid = (with_orphans = {})
                /\ DOMAIN out.orphan_counts = with_orphans
                /\ DOMAIN out.orphan_records = with_orphans
                /\ \A fk \in with_orphans :
                    /\ out.orphan_counts[fk] = Cardinality(orphans(fk))
                    /\ SmallestAscending(out.orphan_records[fk], orphans(fk))

\* a check that found more than ten orphans in one column, listed out of order
\* and repeated in the fact table, and none in the other
C21_Witness ==
    /\ IntegrityChecked
    /\ checked.out.status = "ok"
    /\ Len(lastCall.args[3]) = 2
    /\ DOMAIN checked.out.orphan_counts = {"geo_key"}
    /\ checked.out.orphan_counts["geo_key"] > 10
    /\ Len(checked.out.orphan_records["geo_key"]) = 10
    /\ lastCall.df[1].geo_key > lastCall.df[2].geo_key

\* C22: check_referential_integrity is read-only: the fact table and every
\* dimension table hold the same rows and columns after the call as before.
C22_IntegrityReadOnly ==
    IntegrityChecked => table.df = lastCall.df /\ dims = lastCall.args[1]

\* a check that found orphans and left the tables alone
C22_Witness ==
    /\ IntegrityChecked
    /\ checked.out.status = "ok"
    /\ ~checked.out.valid
    /\ table.df = lastCall.df
    /\ table.df # <<>>

----------------------------------------------------------------------------
(* Claim about generated tables under validation (checked under SpecTime) *)

\* C23: a generated table is never changed after its generator returns: after
\* any sequence of validator calls the table object passed in still has
\* exactly the columns and rows it had when generated.
C23_GeneratedTableUnchanged ==
    (table.kind # "none" /\ lastCall.status = "ok") => table.df = lastCall.df

----------------------------------------------------------------------------
(* Claims about validate_scd_type2 (checked under SpecValid) *)

ScdChecked == checked.fn = "validate_scd_type2"

\* (a) a row with effective_date >= expiration_date
HasInvalidDates(df) == \E i \in DOMAIN df : ~DateLT(df[i].effective_date, df[i].expiration_date)

\* (b) a product_id with more than one is_current row
HasMultipleCurrent(df) ==
    \E i, j \in DOMAIN df : i # j /\ df[i].product_id = df[j].product_id /\ df[i].is_current /\ df[j].is_current

\* rows i and j are versions of one product whose intervals [effective, expiration) meet
Overlap(df, i, j) ==
    /\ i # j
    /\ df[i].product_id = df[j].product_id
    /\ DateLT(df[i].effective_date, df[j].expiration_date)
    /\ DateLT(df[j].effective_date, df[i].expiration_date)

\* (c) two rows of one product_id with overlapping validity intervals
HasOverlap(df) == \E i, j \in DOMAIN df : Overlap(df, i, j)

C28_AcceptedHasOneCurrent ==
    (ScdChecked /\ checked.out = "True") =>
        \A pid \in Column(table.df, "product_id") :
            Cardinality({i \in DOMAIN table.df : table.df[i].product_id = pid /\ table.df[i].is_current}) = 1

----------------------------------------------------------------------------
(* Claim about build_partition_path (checked under SpecPart) *)

\* C29: build_partition_path({'year': y, 'quarter': q}) returns
\* 'year=<y>/quarter=<q>', the relative path facts.partition_path appends to
\* its base path for a date of that year and quarter, and parsing it gives
\* back both keys with their values as strings.
C29_BuildMatchesPartitionPath ==
    part.fn = "build_partition_path" =>
        /\ part.path = YearKey \o <<"=">> \o ExpectedYearText(part.date)
                           \o <<"/">> \o QuarterKey \o <<"=">> \o ExpectedQuarter(part.date)
        /\ part.base \o <<"/">> \o part.path = PartitionPath(part.date, part.base)
        /\ ParsePartitionPath(part.path) =
               (YearKey :> ExpectedYearText(part.date)) @@ (QuarterKey :> ExpectedQuarter(part.date))

----------------------------------------------------------------------------
(* Claim about surrogate keys (checked under Spec) *)

\* the surrogate-key column of the table a generator returns
KeyColumnOf(fn) ==
    CASE fn = "generate_dim_geography" -> "geo_key"
      [] fn = "generate_dim_product" -> "product_key"
      [] fn = "generate_dim_customer" -> "customer_key"
      [] fn = "generate_dim_payment" -> "payment_key"

KeyedGenerators == {"generate_dim_geography", "generate_dim_product", "generate_dim_customer", "generate_dim_payment"}

\* C26: in the geography, product, customer and payment dimensions the
\* surrogate key of the i-th emitted row is i, so the keys are the dense
\* sequence 1..N, positive and unique; in the product dimension a historical
\* row is followed at once by the current row of the same product, which
\* carries the next key.
C26_DenseSurrogateKeys ==
    (lastCall.fn \in KeyedGenerators /\ lastCall.status = "ok") =>
        LET df == lastCall.df
            key(i) == df[i][KeyColumnOf(lastCall.fn)]
        IN  /\ \A i \in DOMAIN df : key(i) = i
            /\ \A i, j \in DOMAIN df : key(i) = key(j) => i = j
            /\ lastCall.fn = "generate_dim_product" =>
                \A i \in DOMAIN df : ~df[i].is_current =>
                    /\ i + 1 \in DOMAIN df
                    /\ df[i + 1].is_current
                    /\ df[i + 1].product_id = df[i].product_id
                    /\ df[i + 1].product_key = df[i].product_key + 1

\* a product table where a product without history follows one with history,
\* so that its key is no longer its product number
C26_Witness ==
    /\ lastCall.fn = "generate_dim_product"
    /\ lastCall.status = "ok"
    /\ \E i \in DOMAIN lastCall.df :
        /\ ~lastCall.df[i].is_current
        /\ i + 2 \in DOMAIN lastCall.df
        /\ lastCall.df[i + 2].is_current
        /\ lastCall.df[i + 2].product_key = i + 2

----------------------------------------------------------------------------
(* Claim about the fields shared by a transaction (checked under SpecSeeds) *)

\* C27: all line items of one transaction carry the same transaction_date,
\* transaction_timestamp, time_key, geo_key, customer_key and payment_key, and
\* each row's time_key is the time-dimension key of its transaction_date:
\* year * 10000 + month * 100 + day of that date.
C27_TransactionFieldsShared ==
    FactReturned =>
        LET df == lastCall.df
        IN  /\ \A i, j \in DOMAIN df : df[i].transaction_id = df[j].transaction_id =>
                /\ df[i].transaction_date = df[j].transaction_date
                /\ df[i].transaction_timestamp = df[j].transaction_timestamp
                /\ df[i].time_key = df[j].time_key
                /\ df[i].geo_key = df[j].geo_key
                /\ df[i].customer_key = df[j].customer_key
                /\ df[i].payment_key = df[j].payment_key
            /\ \A i \in DOMAIN df :
                /\ \E k \in DOMAIN dims.time :
                    dims.time[k].date = df[i].transaction_date /\ dims.time[k].time_key = df[i].time_key
                /\ df[i].time_key = df[i].transaction_date.year * 10000
                                      + df[i].transaction_date.month * 100 + df[i].transaction_date.day

\* two transactions that differ in a shared field, one of them with line items
\* of different products
C27_Witness ==
    /\ FactReturned
    /\ \E i, j \in DOMAIN lastCall.df :
        /\ lastCall.df[i].transaction_id = lastCall.df[j].transaction_id
        /\ lastCall.df[i].product_key # lastCall.df[j].product_key
    /\ \E i, j \in DOMAIN lastCall.df :
        /\ lastCall.df[i].transaction_id # lastCall.df[j].transaction_id
        /\ \/ lastCall.df[i].geo_key # lastCall.df[j].geo_key
           \/ lastCall.df[i].customer_key # lastCall.df[j].customer_key
           \/ lastCall.df[i].time_key # lastCall.df[j].time_key

----------------------------------------------------------------------------
(* Several DataGenerator objects alive in one process *)

\* DataGenerator objects created per behaviour
MaxContexts == 2
\* draws asked of one DataGenerator between two seedings
MaxContextDraws == 2

\* DataGenerator(seed)
NewDataGenerator ==
    /\ Len(contexts) < MaxContexts
    /\ \E seed \in Seeds :
        /\ contexts' = Append(contexts, [seed |-> seed, draws |-> <<>>])
        /\ streams' = DataGeneratorInit(seed, streams)
    /\ UNCHANGED <<today, dims, table, lastCall, memoCall, ncalls, ndraws, checked, part, disk>>

\* generator.reset_seed()
CallResetSeed ==
    /\ \E c \in DOMAIN contexts :
        /\ contexts[c].draws # <<>>
        /\ contexts' = [contexts EXCEPT ![c].draws = <<>>]
        /\ streams' = ResetSeed(contexts[c].seed, streams)
    /\ UNCHANGED <<today, dims, table, lastCall, memoCall, ncalls, ndraws, checked, part, disk>>

\* a draw made for generator c: random.choice(...) and the like read Python's
\* stream, generator.faker.city() and the like read Faker's
ContextDraw ==
    /\ \E c \in DOMAIN contexts, which \in {"py", "faker"} :
        /\ Len(contexts[c].draws) < MaxContextDraws
        /\ contexts' = [contexts EXCEPT ![c].draws = Append(@, [stream |-> which, value |-> streams[which]])]
        /\ streams' = [streams EXCEPT ![which] = Advance(@)]
    /\ UNCHANGED <<today, dims, table, lastCall, memoCall, ncalls, ndraws, checked, part, disk>>

NextContexts ==
    \/ NewDataGenerator
    \/ CallResetSeed
    \/ ContextDraw

SpecContexts == Init /\ [][NextContexts]_vars

\* C25: two DataGenerator contexts created with the same seed and asked for
\* the same sequence of draws yield the same values, in every interleaving
\* of their creation, reset_seed and draw steps.
C25_ContextsIndependent ==
    \A a, b \in DOMAIN contexts :
        (a # b /\ contexts[a].seed = contexts[b].seed) =>
            \A i \in DOMAIN contexts[a].draws \cap DOMAIN contexts[b].draws :
                (\A k \in 1..i : contexts[a].draws[k].stream = contexts[b].draws[k].stream)
                    => contexts[a].draws[i].value = contexts[b].draws[i].value

----------------------------------------------------------------------------
(* storage/csv_handler.py: partitioned CSV datasets.  A row maps column names *)
(* (text) to Python values; a file maps column names to the text of its cells; *)
(* the files of the dataset are kept by their path relative to its directory. *)

\* pd.read_csv type inference for one cell: digits are an int, anything else a str
ReadCell(text) ==
    LET RECURSIVE ParseInt(_)
        ParseInt(t) == IF t = <<>> THEN 0
                       ELSE 10 * ParseInt(SubSeq(t, 1, Len(t) - 1)) + (CHOOSE d \in 0..9 : Digit(d) = t[Len(t)])
    IN  IF text # <<>> /\ \A i \in DOMAIN text : \E d \in 0..9 : Digit(d) = text[i]
        THEN [type |-> "int", val |-> ParseInt(text)]
        ELSE [type |-> "str", val |-> text]

DataCsv == <<"d", "a", "t", "a", ".", "c", "s", "v">>

\* CSVHandler.write_partitioned(df, table_name, partition_cols): the files of
\* the dataset directory after the call
WritePartitioned(df, partition_cols, files) ==
    LET cells(r, cols) == [c \in cols |-> Format(r[c])]
        columns == IF df = <<>> THEN {} ELSE DOMAIN df[1]
        cols == {partition_cols[i] : i \in DOMAIN partition_cols}
        partition_path(r) == Join([i \in DOMAIN partition_cols |->
                                      partition_cols[i] \o <<"=">> \o Format(r[partition_cols[i]])], <<"/">>)
        partition_file(r) == partition_path(r) \o <<"/">> \o DataCsv
        written == {partition_file(df[i]) : i \in DOMAIN df}
        group(f) == SelectSeq(df, LAMBDA r : partition_file(r) = f)
    IN  IF partition_cols = <<>>
        THEN DictSet(files, <<"t", ".", "c", "s", "v">>, [i \in DOMAIN df |-> cells(df[i], columns)])
        ELSE [f \in DOMAIN files \cup written |->
                 IF f \in written
                 THEN [i \in DOMAIN group(f) |-> cells(group(f)[i], columns \ cols)]
                 ELSE files[f]]

\* the files of a set in the order the directory walk lists them
RECURSIVE Listed(_)
Listed(paths) ==
    IF paths = {} THEN <<>>
    ELSE LET f == CHOOSE x \in paths : TRUE IN <<f>> \o Listed(paths \ {f})

\* CSVHandler.read_partitioned(table_name, partition_filter=...): the frame
\* returned, or the exception raised
ReadPartitioned(files, partition_filter) ==
    LET csv_files == DOMAIN files
        matches(f) == \A col \in DOMAIN partition_filter :
                          Contains(f, col \o <<"=">> \o Format(partition_filter[col]))
        filtered == IF partition_filter # EmptyDict THEN {f \in csv_files : matches(f)} ELSE csv_files
        path_parts(f) == LET pieces == Split(f, "/") IN SubSeq(pieces, 1, Len(pieces) - 1)
        RECURSIVE WithParts(_, _, _)
        WithParts(row, parts, n) ==
            IF n > Len(parts) THEN row
            ELSE IF \E i \in DOMAIN parts[n] : parts[n][i] = "="
            THEN WithParts(DictSet(row, SplitFirst(parts[n], "=")[1],
                                   [type |-> "str", val |-> SplitFirst(parts[n], "=")[2]]), parts, n + 1)
            ELSE WithParts(row, parts, n + 1)
        read(f) == [i \in DOMAIN files[f] |->
                       WithParts([c \in DOMAIN files[f][i] |-> ReadCell(files[f][i][c])], path_parts(f), 1)]
        RECURSIVE Concatenated(_)
        Concatenated(fs) == IF fs = <<>> THEN <<>> ELSE read(fs[1]) \o Concatenated(Tail(fs))
    IN  IF csv_files = {} THEN [status |-> "FileNotFoundError", df |-> <<>>]
        ELSE IF filtered = {}
        THEN IF DataCsv \in csv_files
             THEN [status |-> "ok", df |-> <<>>]
             ELSE [status |-> "FileNotFoundError", df |-> <<>>]
        ELSE [status |-> "ok", df |-> Concatenated(Listed(filtered))]

\* rows of a table handed to write_partitioned
MaxStoredRows == 3

MonthKey == <<"m", "o", "n", "t", "h">>

AmountKey == <<"a", "m", "o", "u", "n", "t">>

\* the partition values a row can have
StoredParts == {<<2023, 1>>, <<2023, 10>>, <<2024, 1>>, <<2024, 10>>}

\* tables of up to MaxStoredRows rows, each row with its own amount
RECURSIVE StoredTables(_)
StoredTables(n) ==
    IF n = 0 THEN {<<>>}
    ELSE StoredTables(n - 1)
            \cup {Append(t, (YearKey :> PyInt(p[1])) @@ (MonthKey :> PyInt(p[2])) @@ (AmountKey :> PyInt(10 * n))) :
                     t \in {u \in StoredTables(n - 1) : Len(u) = n - 1}, p \in StoredParts}

PartitionColumns == {<<YearKey>>, <<MonthKey>>, <<YearKey, MonthKey>>, <<>>}

PartitionFilters ==
    {EmptyDict, (YearKey :> PyInt(2023)), (YearKey :> PyInt(2025)), (MonthKey :> PyInt(1)),
     (MonthKey :> PyInt(10)), (YearKey :> PyInt(2024)) @@ (MonthKey :> PyInt(1))}

\* handler.write_partitioned(df, t, partition_cols) into an empty directory
CallWritePartitioned ==
    /\ ncalls = 0
    /\ \E df \in StoredTables(MaxStoredRows), partition_cols \in PartitionColumns :
        /\ table' = [kind |-> "stored", df |-> df]
        /\ lastCall' = [fn |-> "write_partitioned", args |-> <<partition_cols>>, status |-> "ok", df |-> df]
        /\ disk' = [disk EXCEPT !.files = WritePartitioned(df, partition_cols, @)]
    /\ ncalls' = ncalls + 1
    /\ UNCHANGED <<streams, today, dims, memoCall, ndraws, checked, part, contexts>>

\* handler.read_partitioned(t, partition_filter=F) on the dataset written before
CallReadPartitioned ==
    /\ lastCall.fn = "write_partitioned"
    /\ \E partition_filter \in PartitionFilters :
        LET r == ReadPartitioned(disk.files, partition_filter)
        IN  disk' = [disk EXCEPT !.read = [status |-> r.status, df |-> r.df, filter |-> partition_filter]]
    /\ UNCHANGED <<streams, today, dims, table, lastCall, memoCall, ncalls, ndraws, checked, part, contexts>>

NextStore ==
    \/ CallWritePartitioned
    \/ CallReadPartitioned

SpecStore == Init /\ [][NextStore]_vars

\* C30: for a dataset written by write_partitioned(df, t, partition_cols),
\* read_partitioned(t, partition_filter=F) returns exactly the rows of df whose
\* value in every column of F equals F's, and no row of another partition;
\* when no partition matches it returns an empty table instead of raising.
\* Values are compared by their text, so that 2023 read back as '2023' counts
\* as the same value.
C30_FilteredReadReturnsMatches ==
    (disk.read.status # "none" /\ lastCall.args[1] # <<>>
        /\ \A c \in DOMAIN disk.read.filter : \E i \in DOMAIN lastCall.args[1] : lastCall.args[1][i] = c) =>
        LET text(r) == [c \in DOMAIN r |-> Format(r[c])]
            wanted(r) == \A c \in DOMAIN disk.read.filter : Format(r[c]) = Format(disk.read.filter[c])
        IN  /\ disk.read.status = "ok"
            /\ {text(disk.read.df[i]) : i \in DOMAIN disk.read.df}
                   = {text(lastCall.df[i]) : i \in {j \in DOMAIN lastCall.df : wanted(lastCall.df[j])}}
            /\ Len(disk.read.df) = Cardinality({j \in DOMAIN lastCall.df : wanted(lastCall.df[j])})

====
